---- MODULE Spec2Model ----
(***************************************************************************)
(* Market-data aggregation endpoint of gold-decision-radar.                *)
(*                                                                         *)
(* The repository holds six successive revisions of functions/api/market.js *)
(* (onRequestGet and its helpers).  The model names them                    *)
(*   r1  src/functions/api/market.js lines   1-200                          *)
(*   r2  src/functions/api/market.js lines 202-398                          *)
(*   r3  src/unnamed/part_001        lines   5-71  (helpers: lines 135-318) *)
(*   r4  src/unnamed/part_001        lines  73-318                          *)
(*   r5  src/unnamed/part_002                                               *)
(*   r6  src/unnamed/part_003                                               *)
(* and every operator that differs between revisions takes the revision as *)
(* a parameter or exists once per differing body.                          *)
(*                                                                         *)
(* JavaScript values are records [t, n, d, s]: t is the kind, n/d a         *)
(* rational in lowest terms (d > 0) for finite numbers, n the sign for an   *)
(* infinity, s the text of a string.  IEEE rounding is not modelled:        *)
(* finite arithmetic is exact.  Per-field asOf timestamps are not modelled. *)
(***************************************************************************)
EXTENDS Integers, Sequences, FiniteSets, TLC

(* ------------------------------------------------------------------ *)
(* JavaScript values                                                   *)
(* ------------------------------------------------------------------ *)

JS(t, n, d, s) == [t |-> t, n |-> n, d |-> d, s |-> s]

Abs(x) == IF x < 0 THEN -x ELSE x

RECURSIVE Gcd(_, _)
Gcd(a, b) == IF b = 0 THEN a ELSE Gcd(b, a % b)

Rat(n, d) ==
  LET g == Gcd(Abs(n), Abs(d))
      sg == IF d < 0 THEN -1 ELSE 1
  IN  JS("num", (sg * n) \div g, Abs(d) \div g, "")

Num(n) == JS("num", n, 1, "")
Inf(sign) == JS("inf", sign, 1, "")
NaN == JS("nan", 0, 1, "")
Null == JS("null", 0, 1, "")
Undefined == JS("undefined", 0, 1, "")
Str(s) == JS("str", 0, 1, s)
True == JS("bool", 1, 1, "")
\* the text new Date().toISOString() produces at request time
IsoNow == JS("iso", 0, 1, "")
\* a nested array or object, where only its presence is observed
Arr == JS("array", 0, 1, "")

\* typeof x === "number"
IsNumber(x) == x.t \in {"num", "inf", "nan"}
\* Number.isFinite(x)
IsFinite(x) == x.t = "num"
\* ToBoolean(x) for the values the handlers test
Truthy(x) ==
  CASE x.t = "num" -> x.n # 0
    [] x.t = "inf" -> TRUE
    [] x.t = "str" -> x.s # ""
    [] x.t \in {"iso", "array", "bool"} -> TRUE
    [] OTHER -> FALSE
\* Number.isFinite(x) ? x : null
finiteOrNull(x) == IF IsFinite(x) THEN x ELSE Null
\* x ?? y
Coalesce(x, y) == IF x.t \in {"null", "undefined"} THEN y ELSE x
\* x || y
OrElse(x, y) == IF Truthy(x) THEN x ELSE y

Sign(x) == IF x.n > 0 THEN 1 ELSE IF x.n < 0 THEN -1 ELSE 0

\* a - b on numbers
JsSub(a, b) ==
  CASE a.t = "nan" \/ b.t = "nan" -> NaN
    [] a.t = "inf" /\ b.t = "inf" -> IF a.n = b.n THEN NaN ELSE a
    [] a.t = "inf" -> a
    [] b.t = "inf" -> Inf(-b.n)
    [] OTHER -> Rat(a.n * b.d - b.n * a.d, a.d * b.d)

\* a / b on numbers
JsDiv(a, b) ==
  CASE a.t = "nan" \/ b.t = "nan" -> NaN
    [] a.t = "inf" /\ b.t = "inf" -> NaN
    [] a.t = "inf" -> IF Sign(b) < 0 THEN Inf(-a.n) ELSE a
    [] b.t = "inf" -> Num(0)
    [] b.n = 0 -> IF a.n = 0 THEN NaN ELSE Inf(Sign(a))
    [] OTHER -> Rat(a.n * b.d, a.d * b.n)

\* a * b on numbers
JsMul(a, b) ==
  CASE a.t = "nan" \/ b.t = "nan" -> NaN
    [] a.t = "inf" \/ b.t = "inf" ->
         IF Sign(a) * Sign(b) = 0 THEN NaN ELSE Inf(Sign(a) * Sign(b))
    [] OTHER -> Rat(a.n * b.n, a.d * b.d)

\* a > b and a < b on numbers (false when either is NaN)
JsGt(a, b) ==
  CASE a.t = "nan" \/ b.t = "nan" -> FALSE
    [] a.t = "inf" /\ b.t = "inf" -> a.n > b.n
    [] a.t = "inf" -> a.n > 0
    [] b.t = "inf" -> b.n < 0
    [] OTHER -> a.n * b.d > b.n * a.d

JsLt(a, b) == JsGt(b, a)

(* ------------------------------------------------------------------ *)
(* Text: a string is the sequence of its characters                    *)
(* ------------------------------------------------------------------ *)

Digits == <<"0", "1", "2", "3", "4", "5", "6", "7", "8", "9">>
IsDigit(c) == \E i \in 1..Len(Digits) : Digits[i] = c
DigitOf(c) == (CHOOSE i \in 1..Len(Digits) : Digits[i] = c) - 1
IsSpace(c) == c = " "

MinOf(S) == CHOOSE x \in S : \A y \in S : x <= y
MaxOf(S) == CHOOSE x \in S : \A y \in S : x >= y

RECURSIVE Pow10(_)
Pow10(k) == IF k = 0 THEN 1 ELSE 10 * Pow10(k - 1)

\* the last index j >= i - 1 such that cs[i..j] are all digits
DigitEnd(cs, i) ==
  MaxOf({j \in (i - 1)..Len(cs) : \A k \in i..j : IsDigit(cs[k])})

RECURSIVE DigitsVal(_, _, _)
DigitsVal(cs, i, j) ==
  IF j < i THEN 0 ELSE DigitsVal(cs, i, j - 1) * 10 + DigitOf(cs[j])

InfinityText == <<"I", "n", "f", "i", "n", "i", "t", "y">>

\* parseFloat(string): leading white space, sign, Infinity or a decimal
\* literal (digits, optional point and digits); trailing text is ignored;
\* NaN when no literal starts the text.  Exponents are outside the inputs.
parseFloat(cs) ==
  LET n == Len(cs)
      \* sign, start s1 and end e1 of the integer digits, end e2 of the
      \* fraction digits, scale 10^(number of fraction digits)
      decimal(sign, s1, e1, e2, scale) ==
        IF e1 - s1 + 1 + (IF e2 > e1 THEN e2 - (e1 + 1) ELSE 0) = 0 THEN NaN
        ELSE Rat(sign * (DigitsVal(cs, s1, e1) * scale
                         + (IF e2 > e1 + 1 THEN DigitsVal(cs, e1 + 2, e2) ELSE 0)),
                 scale)
      fraction(sign, s1, e1, e2) ==
        decimal(sign, s1, e1, e2, Pow10(IF e2 > e1 THEN e2 - (e1 + 1) ELSE 0))
      integer(sign, s1, e1) ==
        fraction(sign, s1, e1,
                 IF e1 + 1 <= n /\ cs[e1 + 1] = "." THEN DigitEnd(cs, e1 + 2) ELSE e1)
      literal(sign, s1) ==
        IF s1 + 7 <= n /\ SubSeq(cs, s1, s1 + 7) = InfinityText THEN Inf(sign)
        ELSE integer(sign, s1, DigitEnd(cs, s1))
      signed(s0) ==
        literal(IF s0 <= n /\ cs[s0] = "-" THEN -1 ELSE 1,
                IF s0 <= n /\ cs[s0] \in {"+", "-"} THEN s0 + 1 ELSE s0)
  IN  signed(MinOf({i \in 1..(n + 1) : i = n + 1 \/ ~IsSpace(cs[i])}))

\* String.prototype.trim
trim(cs) ==
  LET n == Len(cs)
      a == MinOf({i \in 1..(n + 1) : i = n + 1 \/ ~IsSpace(cs[i])})
      b == MaxOf({j \in 0..n : j = 0 \/ ~IsSpace(cs[j])})
  IN  IF a > b THEN <<>> ELSE SubSeq(cs, a, b)

LowerChar(c) ==
  CASE c = "O" -> "o" [] c = "F" -> "f" [] c = "A" -> "a" [] c = "L" -> "l"
    [] c = "S" -> "s" [] c = "E" -> "e" [] c = "U" -> "u" [] c = "T" -> "t"
    [] OTHER -> c

\* String.prototype.toLowerCase
toLowerCase(cs) == [i \in 1..Len(cs) |-> LowerChar(cs[i])]

\* A query parameter: absent (searchParams.get gives null) or its text.
Absent == [present |-> FALSE, text |-> <<>>]
Given(cs) == [present |-> TRUE, text |-> cs]

\* toNum of part_002
toNum(v) ==
  IF ~v.present \/ v.text = <<>> THEN Null
  ELSE finiteOrNull(parseFloat(trim(v.text)))

(* ------------------------------------------------------------------ *)
(* CSV documents: a sequence of lines, a line the sequence of its      *)
(* comma-separated cells, a cell a text.  The empty line is one empty  *)
(* cell.                                                               *)
(* ------------------------------------------------------------------ *)

EmptyLine == << <<>> >>

\* text.trim().split(/\r?\n/): blank lines at both ends are trimmed away;
\* splitting the empty text gives one empty line
splitLines(doc) ==
  LET n == Len(doc)
      a == MinOf({i \in 1..(n + 1) : i = n + 1 \/ doc[i] # EmptyLine})
      b == MaxOf({j \in 0..n : j = 0 \/ doc[j] # EmptyLine})
  IN  IF a > b THEN <<EmptyLine>> ELSE SubSeq(doc, a, b)

\* .filter(Boolean) on lines
nonEmptyLines(lines) == SelectSeq(lines, LAMBDA l : l # EmptyLine)

\* Array.prototype.slice(from, to) with 0-based bounds
slice(s, from, to) ==
  IF from >= Len(s) THEN <<>> ELSE SubSeq(s, from + 1, IF to < Len(s) THEN to ELSE Len(s))

(* ------------------------------------------------------------------ *)
(* Provider clients.  A client's outcome is Throw(message) or          *)
(* Return(fields).  An upstream reply says whether fetch() resolved    *)
(* (net), res.ok, and the parsed body.                                 *)
(* ------------------------------------------------------------------ *)

Revs == {"r1", "r2", "r3", "r4", "r5", "r6"}

Throw(m) == [threw |-> TRUE, msg |-> m]

\* Array.prototype.find, given the elements that pass the test, in order:
\* the first of them, else undefined
find(hits) == IF hits = <<>> THEN Undefined ELSE hits[1]

\* [...s].reverse()
reverse(s) == [i \in 1..Len(s) |-> s[Len(s) + 1 - i]]

\* ((last - first) / first) * 100
pctChange(first, last) == JsMul(JsDiv(JsSub(last, first), first), Num(100))

\* fetchYahooChart of r1: the quote fields and closes must be finite numbers
fetchYahooChartFinite(p) ==
  IF ~p.net THEN Throw("network fault")
  ELSE IF ~p.ok THEN Throw("Yahoo fetch failed")
  ELSE IF ~p.hasResult THEN Throw("Yahoo parse failed")
  ELSE
    LET usable(x) == IsNumber(x) /\ IsFinite(x)
        latestPrice ==
          IF usable(p.rmp) /\ Truthy(p.rmp) THEN p.rmp
          ELSE IF usable(p.pc) /\ Truthy(p.pc) THEN p.pc
          ELSE Null
        pct(first, last) == IF IsNumber(first) /\ IsNumber(last) /\ first # Num(0)
                            THEN pctChange(first, last) ELSE Null
    IN  [threw |-> FALSE, msg |-> "", latestPrice |-> latestPrice,
         pctChangeFromFirstPoint |->
           pct(find(SelectSeq(p.closes, usable)),
               find(SelectSeq(reverse(p.closes), usable)))]

\* fetchYahooChart of r2..r6: typeof x === "number" is the only test
fetchYahooChartTypeof(p) ==
  IF ~p.net THEN Throw("network fault")
  ELSE IF ~p.ok THEN Throw("Yahoo fetch failed")
  ELSE IF ~p.hasResult THEN Throw("Yahoo parse failed")
  ELSE
    LET latestPrice ==
          IF IsNumber(p.rmp) /\ Truthy(p.rmp) THEN p.rmp
          ELSE IF IsNumber(p.pc) /\ Truthy(p.pc) THEN p.pc
          ELSE Null
        pct(first, last) == IF IsNumber(first) /\ IsNumber(last) /\ first # Num(0)
                            THEN pctChange(first, last) ELSE Null
    IN  [threw |-> FALSE, msg |-> "", latestPrice |-> latestPrice,
         pctChangeFromFirstPoint |->
           pct(find(SelectSeq(p.closes, IsNumber)),
               find(SelectSeq(reverse(p.closes), IsNumber)))]

fetchYahooChart(rev, p) ==
  IF rev = "r1" THEN fetchYahooChartFinite(p) ELSE fetchYahooChartTypeof(p)

\* lines.slice(1, StooqSliceEnd): 32 in r1, 31 in the later revisions
StooqSliceEndR1 == 32
StooqSliceEnd == 31

\* fetchStooqClose: newest row first; last = closes[0], oldest = the last one
fetchStooqClose(rev, p, computePct) ==
  IF ~p.net THEN Throw("network fault")
  ELSE IF ~p.ok THEN Throw("Stooq fetch failed")
  ELSE
    LET upto == IF rev = "r1" THEN StooqSliceEndR1 ELSE StooqSliceEnd
        ends(last, oldest) ==
          [threw |-> FALSE, msg |-> "", last |-> last,
           pct30d |-> IF computePct /\ IsFinite(last) /\ IsFinite(oldest)
                         /\ oldest # Num(0)
                      THEN pctChange(oldest, last) ELSE Null]
        ofCloses(closes) ==
          ends(IF closes = <<>> THEN Undefined ELSE closes[1],
               IF closes = <<>> THEN Undefined ELSE closes[Len(closes)])
        ofRows(rows) ==
          ofCloses(SelectSeq([i \in 1..Len(rows) |-> parseFloat(rows[i][5])], IsFinite))
        ofLines(lines) ==
          IF Len(lines) < 2 THEN Throw("Stooq CSV empty")
          ELSE ofRows(SelectSeq(slice(lines, 1, upto), LAMBDA r : Len(r) >= 5))
    IN  ofLines(nonEmptyLines(splitLines(p.doc)))

\* a loop that runs from the top: the first row below the header with a
\* numeric second cell
fredScanFromTop(lines, i) ==
  LET numeric(row) == Len(row) >= 2 /\ IsFinite(parseFloat(row[2]))
      first(hits) == IF hits = <<>> THEN Undefined ELSE parseFloat(hits[1][2])
  IN  first(SelectSeq(SubSeq(lines, 2, Len(lines)), numeric))

\* the loop of fetchFredLastValue: rows i = n-1 down to 1 (0-based), the first
\* with at least two cells whose second parses to a finite number
RECURSIVE fredScan(_, _)
fredScan(lines, i) ==
  IF i < 2 THEN Undefined
  ELSE LET parts == lines[i]
           test(v) == IF Len(parts) >= 2 /\ IsFinite(v) THEN v
                      ELSE fredScan(lines, i - 1)
       IN  test(IF Len(parts) >= 2 THEN parseFloat(parts[2]) ELSE NaN)

fetchFredLastValue(p) ==
  IF ~p.net THEN Throw("network fault")
  ELSE IF ~p.ok THEN Throw("FRED fetch failed")
  ELSE
    LET found(v) == IF v = Undefined THEN Throw("No numeric value found in FRED CSV")
                    ELSE [threw |-> FALSE, msg |-> "", value |-> v]
        scan(lines) == found(fredScan(lines, Len(lines)))
    IN  scan(splitLines(p.doc))

\* fetchYahooCloses needs at least this many finite closes
MinCloses == 20

\* fetchYahooCloses of r2..r5
fetchYahooClosesChecked(p) ==
  IF ~p.net THEN Throw("network fault")
  ELSE IF ~p.ok THEN Throw("Yahoo fetch failed")
  ELSE IF ~p.hasResult THEN Throw("Yahoo parse failed")
  ELSE
    LET enough(closes) ==
          IF Len(closes) < MinCloses THEN Throw("Not enough closes for RSI(14)")
          ELSE [threw |-> FALSE, msg |-> "", closes |-> closes]
    IN  enough(SelectSeq(p.closes, LAMBDA x : IsNumber(x) /\ IsFinite(x)))

\* fetchYahooCloses of r6: the response is bound to res, the status test
\* reads res1, which is bound nowhere, so the test raises a ReferenceError
\* whenever fetch() resolved
fetchYahooClosesRes1(p) ==
  IF ~p.net THEN Throw("network fault") ELSE Throw("res1 is not defined")

fetchYahooCloses(rev, p) ==
  IF rev = "r6" THEN fetchYahooClosesRes1(p) ELSE fetchYahooClosesChecked(p)

(* ------------------------------------------------------------------ *)
(* Wilder RSI(14).  Closes are whole numbers here; avgGain and avgLoss  *)
(* are kept as numerators g, l over the common denominator 14^k, so the *)
(* result 100 - 100/(1 + g/l) is 100*g/(g+l) exactly.                   *)
(* ------------------------------------------------------------------ *)

period == 14

\* closes[i] - closes[i - 1] for the 0-based index i
change(closes, i) == closes[i + 1].n - closes[i].n

RECURSIVE seedGains(_, _)
seedGains(closes, i) ==
  IF i < 1 THEN 0
  ELSE seedGains(closes, i - 1)
       + (IF change(closes, i) >= 0 THEN change(closes, i) ELSE 0)

RECURSIVE seedLosses(_, _)
seedLosses(closes, i) ==
  IF i < 1 THEN 0
  ELSE seedLosses(closes, i - 1)
       + (IF change(closes, i) >= 0 THEN 0 ELSE Abs(change(closes, i)))

\* a rolling window in the place of the smoothing loop: the sums over the
\* last 14 changes of the series
smoothRolling(closes, i, a) ==
  LET over(window) == [g |-> seedGains(window, period),
                       l |-> seedLosses(window, period), scale |-> 1]
  IN  over(SubSeq(closes, Len(closes) - period, Len(closes)))

\* the smoothing loop from 0-based index i on; a = [g, l, scale] with
\* avgGain = g / (period * scale), avgLoss = l / (period * scale)
RECURSIVE smooth(_, _, _)
smooth(closes, i, a) ==
  IF i >= Len(closes) THEN a
  ELSE LET ch == change(closes, i)
           gain == IF ch > 0 THEN ch ELSE 0
           loss == IF ch < 0 THEN Abs(ch) ELSE 0
       IN  smooth(closes, i + 1,
                  [g |-> a.g * (period - 1) + gain * period * a.scale,
                   l |-> a.l * (period - 1) + loss * period * a.scale,
                   scale |-> a.scale * period])

\* Math.trunc in the place of Math.round
roundTenthsDown(g, s) == (1000 * g) \div s

\* Math.round(1000 * g / s) for g >= 0, s > 0, by long division
roundTenths(g, s) ==
  LET a == (100 * g) \div s
      r == (100 * g) % s
      b == (10 * r) \div s
      r2 == (10 * r) % s
  IN  10 * a + b + (IF 2 * r2 >= s THEN 1 ELSE 0)

\* what computeRsi14 is handed: an array of closes, or something that
\* Array.isArray rejects
ArrayOf(items) == [isArray |-> TRUE, items |-> items]
NotAnArray == [isArray |-> FALSE, items |-> <<>>]

\* computeRsi14 without the avgLoss === 0 test: rs is avgGain / 0
computeRsi14NoZeroTest(closes) ==
  IF ~closes.isArray \/ Len(closes.items) < period + 1 THEN Null
  ELSE LET rsi(a) == IF a.l = 0 THEN (IF a.g = 0 THEN NaN ELSE Num(100))
                      ELSE Rat(roundTenths(a.g, a.g + a.l), 10)
       IN  rsi(smooth(closes.items, period + 1,
                      [g |-> seedGains(closes.items, period),
                       l |-> seedLosses(closes.items, period), scale |-> 1]))

\* computeRsi14 without the Array.isArray test
computeRsi14NoArrayTest(closes) ==
  IF Len(closes.items) < period + 1 THEN Null
  ELSE LET rsi(a) == IF a.l = 0 THEN Num(100)
                      ELSE Rat(roundTenths(a.g, a.g + a.l), 10)
       IN  rsi(smooth(closes.items, period + 1,
                      [g |-> seedGains(closes.items, period),
                       l |-> seedLosses(closes.items, period), scale |-> 1]))

computeRsi14(closes) ==
  IF ~closes.isArray \/ Len(closes.items) < period + 1 THEN Null
  ELSE LET rsi(a) == IF a.l = 0 THEN Num(100)
                      ELSE Rat(roundTenths(a.g, a.g + a.l), 10)
       IN  rsi(smooth(closes.items, period + 1,
                      [g |-> seedGains(closes.items, period),
                       l |-> seedLosses(closes.items, period), scale |-> 1]))

(* ------------------------------------------------------------------ *)
(* Field resolvers.  A resolver's result object is                     *)
(*   [obj, value, pct30d, trend, provider, note]                       *)
(* (obj is FALSE for the JavaScript null that safe() returns in r3 and  *)
(* r6; a property the object does not have is Undefined / "").  A stage *)
(* of a resolver ends "done" with a result, "reject" with a message, or *)
(* "fallback" when the next provider is to be called.                  *)
(* ------------------------------------------------------------------ *)

Res(value, pct30d, trend, provider, note) ==
  [obj |-> TRUE, value |-> value, pct30d |-> pct30d, trend |-> trend,
   provider |-> provider, note |-> note]

NullRes == [obj |-> FALSE, value |-> Undefined, pct30d |-> Undefined,
            trend |-> Undefined, provider |-> "", note |-> ""]

Done(r) == [kind |-> "done", res |-> r, msg |-> ""]
Reject(m) == [kind |-> "reject", res |-> NullRes, msg |-> m]
Fallback == [kind |-> "fallback", res |-> NullRes, msg |-> ""]

\* the trend threshold 0.5 of pctToTrend
TrendThreshold == Rat(1, 2)

pctToTrend(pct) ==
  IF ~(IsNumber(pct) /\ IsFinite(pct)) THEN Str("stable")
  ELSE IF JsGt(pct, TrendThreshold) THEN Str("weakening")
  ELSE IF JsLt(pct, JsSub(Num(0), TrendThreshold)) THEN Str("strengthening")
  ELSE Str("stable")

\* getDxy, the Yahoo stage: a finite latestPrice wins, anything else
\* (a throw included) falls through to Stooq
getDxyYahoo(rev, p) ==
  LET settle(y) ==
        IF ~y.threw /\ IsFinite(y.latestPrice)
        THEN Done(Res(y.latestPrice, Undefined, Undefined, "yahoo", ""))
        ELSE Fallback
  IN  settle(fetchYahooChart(rev, p))

\* getDxy's Stooq stage, were it to report the primary provider's name
getDxyStooqNamesYahoo(rev, p) ==
  LET settle(s) ==
        IF s.threw THEN Reject(s.msg)
        ELSE Done(Res(s.last, Undefined, Undefined, "yahoo", ""))
  IN  settle(fetchStooqClose(rev, p, FALSE))

\* getDxy, the Stooq stage: value is s.last (s.last ?? null in r5)
getDxyStooq(rev, p) ==
  LET settle(s) ==
        IF s.threw THEN Reject(s.msg)
        ELSE Done(Res(IF rev = "r5" THEN Coalesce(s.last, Null) ELSE s.last,
                      Undefined, Undefined, "stooq", ""))
  IN  settle(fetchStooqClose(rev, p, FALSE))

\* getUsdInr of r1, r5, r6, Yahoo stage: whatever Yahoo returned is returned
getUsdInrYahooAlways(rev, p) ==
  LET settle(y) ==
        IF y.threw THEN Fallback
        ELSE Done(Res(finiteOrNull(y.latestPrice),
                      finiteOrNull(y.pctChangeFromFirstPoint),
                      pctToTrend(y.pctChangeFromFirstPoint), "yahoo", ""))
  IN  settle(fetchYahooChart(rev, p))

\* getUsdInr of r2, r3, r4, Yahoo stage: only a finite latestPrice is returned
getUsdInrYahooFinite(rev, p) ==
  LET settle(y) ==
        IF ~y.threw /\ IsFinite(y.latestPrice)
        THEN Done(Res(y.latestPrice, y.pctChangeFromFirstPoint, Undefined, "yahoo", ""))
        ELSE Fallback
  IN  settle(fetchYahooChart(rev, p))

getUsdInrYahoo(rev, p) ==
  IF rev \in {"r1", "r5", "r6"} THEN getUsdInrYahooAlways(rev, p)
  ELSE getUsdInrYahooFinite(rev, p)

\* getUsdInr, the Stooq stage
getUsdInrStooq(rev, p) ==
  LET settle(s) ==
        IF s.threw THEN Reject(s.msg)
        ELSE IF rev \in {"r1", "r5", "r6"}
        THEN Done(Res(finiteOrNull(s.last), finiteOrNull(s.pct30d),
                      pctToTrend(s.pct30d), "stooq", ""))
        ELSE Done(Res(s.last, s.pct30d, Undefined, "stooq", ""))
  IN  settle(fetchStooqClose(rev, p, TRUE))

\* getRealYield (r3 calls fetchFredLastValue itself, under safe)
getRealYield(rev, p) ==
  LET settle(v) ==
        IF v.threw THEN Reject(v.msg)
        ELSE Done(Res(v.value, Undefined, Undefined, "fred", ""))
  IN  settle(fetchFredLastValue(p))

\* the instrument price: fetchYahooChart itself under safe in r3
getSetfGoldPriceRaw(rev, p) ==
  LET settle(y) ==
        IF y.threw THEN Reject(y.msg)
        ELSE Done(Res(y.latestPrice, Undefined, Undefined, "yahoo", ""))
  IN  settle(fetchYahooChart(rev, p))

\* getSetfGoldPriceSafe of r5
getSetfGoldPriceSafe5(rev, p) ==
  LET settle(y) ==
        IF y.threw
        THEN Done(Res(Null, Undefined, Undefined, "yahoo", "price_fetch_failed"))
        ELSE Done(Res(finiteOrNull(y.latestPrice), Undefined, Undefined, "yahoo", ""))
  IN  settle(fetchYahooChart(rev, p))

\* getSetfGoldPriceSafe of r6: a latestPrice that is not finite throws too,
\* and the catch block reports the iNAV provider
getSetfGoldPriceSafe6(rev, p) ==
  LET caught(m) ==
        Done(Res(Null, Undefined, Undefined, "sbimf", "inav_fetch_failed:" \o m))
      settle(y) ==
        IF y.threw THEN caught(y.msg)
        ELSE IF ~IsFinite(y.latestPrice) THEN caught("no latestPrice")
        ELSE Done(Res(y.latestPrice, Undefined, Undefined, "yahoo", ""))
  IN  settle(fetchYahooChart(rev, p))

getSetfGoldPrice(rev, p) ==
  CASE rev = "r5" -> getSetfGoldPriceSafe5(rev, p)
    [] rev = "r6" -> getSetfGoldPriceSafe6(rev, p)
    [] OTHER -> getSetfGoldPriceRaw(rev, p)

\* getRsi14 of r2 (called bare) and of part_001
getRsi14(rev, p) ==
  LET settle(data) ==
        IF data.threw THEN Reject(data.msg)
        ELSE Done(Res(computeRsi14(ArrayOf(data.closes)), Undefined, Undefined, "yahoo", ""))
  IN  settle(fetchYahooCloses(rev, p))

\* getRsi14Safe of r3, r4, r6: value is computeRsi14's result
getRsi14Safe(rev, p) ==
  LET settle(data) ==
        IF data.threw
        THEN Done(Res(Null, Undefined, Undefined, "yahoo", "rsi_fetch_failed"))
        ELSE Done(Res(computeRsi14(ArrayOf(data.closes)), Undefined, Undefined, "yahoo", ""))
  IN  settle(fetchYahooCloses(rev, p))

\* getRsi14Safe of r5: a non-finite result becomes null
getRsi14Safe5(rev, p) ==
  LET settle(data) ==
        IF data.threw
        THEN Done(Res(Null, Undefined, Undefined, "yahoo", "rsi_fetch_failed"))
        ELSE Done(Res(finiteOrNull(computeRsi14(ArrayOf(data.closes))), Undefined, Undefined,
                      "yahoo", "computed_rsi14"))
  IN  settle(fetchYahooCloses(rev, p))

getRsi(rev, p) ==
  CASE rev = "r2" -> getRsi14(rev, p)
    [] rev = "r5" -> getRsi14Safe5(rev, p)
    [] OTHER -> getRsi14Safe(rev, p)

\* Fund names the NAV listing may hold, and what the handlers' tests say of
\* each: trim().toLowerCase() === "sbi gold etf", /sbi\s+gold\s+etf/i,
\* /sbi\s*gold\s*etf/i, /gold/i && /etf/i
FundNames == {"SBI Gold ETF", "SBI-ETF Gold", "SBI Nifty 50 ETF"}
isExactName(name) == name = "SBI Gold ETF"
isSpacedName(name) == name = "SBI Gold ETF"
isLooseName(name) == name = "SBI Gold ETF"
isGoldAndEtf(name) == name \in {"SBI Gold ETF", "SBI-ETF Gold"}

NoRow == [FundName |-> "", LatestNAV |-> <<>>]

findRow(hits) == IF hits = <<>> THEN NoRow ELSE hits[1]

\* getSbiGoldEtfInavSafe: every failure is caught and reported as a note.
\* r6 also requires a JSON content-type before parsing.
getSbiGoldEtfInavSafe(rev, p) ==
  LET failed == Done(Res(Null, Undefined, Undefined, "sbimf", "inav_fetch_failed"))
      rows == IF p.isJson THEN p.rows ELSE <<>>
      ofNav(inav) == IF ~IsFinite(inav) THEN failed
                     ELSE Done(Res(inav, Undefined, Undefined, "sbimf", ""))
      ofRow(row) == IF row = NoRow THEN failed ELSE ofNav(parseFloat(row.LatestNAV))
      pick(first, second) == ofRow(IF first # NoRow THEN first ELSE second)
  IN  IF ~p.net \/ ~p.ok THEN failed
      ELSE IF rev = "r6" /\ ~p.jsonType THEN failed
      ELSE IF ~p.isJson THEN failed
      ELSE IF rows = <<>> THEN failed
      ELSE pick(IF rev \in {"r3", "r4"}
                THEN findRow(SelectSeq(rows, LAMBDA r : isLooseName(r.FundName)))
                ELSE findRow(SelectSeq(rows, LAMBDA r : isExactName(r.FundName))),
                IF rev \in {"r3", "r4"}
                THEN findRow(SelectSeq(rows, LAMBDA r : isGoldAndEtf(r.FundName)))
                ELSE findRow(SelectSeq(rows, LAMBDA r : isSpacedName(r.FundName))))

(* ------------------------------------------------------------------ *)
(* Upstream replies the model draws from                               *)
(* ------------------------------------------------------------------ *)

YahooReply(net, ok, hasResult, rmp, pc, closes) ==
  [net |-> net, ok |-> ok, hasResult |-> hasResult, rmp |-> rmp, pc |-> pc,
   closes |-> closes]

\* fetch() rejected
YFault == YahooReply(FALSE, FALSE, FALSE, Undefined, Undefined, <<>>)
\* a non-success status
YDown == YahooReply(TRUE, FALSE, FALSE, Undefined, Undefined, <<>>)
\* success, chart.result absent
YNoResult == YahooReply(TRUE, TRUE, FALSE, Undefined, Undefined, <<>>)
\* success, a result whose meta has no quote fields and no closes
YNoQuote == YahooReply(TRUE, TRUE, TRUE, Undefined, Undefined, <<>>)
\* a result whose live quote is 1e999 (parsed as Infinity), closes likewise
YInf == YahooReply(TRUE, TRUE, TRUE, Inf(1), Num(82), <<Inf(1), Num(80)>>)

YDxy == YahooReply(TRUE, TRUE, TRUE, Num(104), Num(103), <<Num(100), Null, Num(104)>>)
YInr == YahooReply(TRUE, TRUE, TRUE, Num(84), Num(83), <<Null, Num(80), Num(82), Num(84), Null>>)
\* no quote fields, but closes: 84 down to 80
YInrNoQuote == YahooReply(TRUE, TRUE, TRUE, Undefined, Null, <<Num(84), Num(80)>>)
YPrice == YahooReply(TRUE, TRUE, TRUE, Num(71), Num(70), <<Num(70), Num(71)>>)
\* the live quote is 0, the previous close 70
YZero == YahooReply(TRUE, TRUE, TRUE, Num(0), Num(70), <<Num(70)>>)

DxyYahooReplies == {YDown, YDxy, YNoQuote, YInf}
UsdInrYahooReplies == {YDown, YInr, YInrNoQuote, YInf}
PriceYahooReplies == {YFault, YDown, YPrice, YNoQuote}

\* 21 entries, one of them null: 20 finite closes rising by 1
ClosesRising == [i \in 1..(MinCloses + 1) |-> IF i = 3 THEN Null ELSE Num(100 + i)]
\* 20 finite closes that rise by 2 and fall by 1 in turn
ClosesMixed == [i \in 1..MinCloses |-> Num(100 + (i \div 2) + 2 * (i % 2))]
\* 20 entries, only 19 of them finite
ClosesShort == [i \in 1..MinCloses |-> IF i = 5 THEN Null ELSE Num(100 + i)]

YClosesRising == YahooReply(TRUE, TRUE, TRUE, Num(121), Num(120), ClosesRising)
YClosesMixed == YahooReply(TRUE, TRUE, TRUE, Num(111), Num(110), ClosesMixed)
YClosesShort == YahooReply(TRUE, TRUE, TRUE, Num(120), Num(119), ClosesShort)

ClosesYahooReplies == {YDown, YNoResult, YClosesRising, YClosesMixed, YClosesShort}

CsvReply(net, ok, doc) == [net |-> net, ok |-> ok, doc |-> doc]

\* cells of a daily-bar row: date, open, high, low, close
Bar(close) == << <<"d">>, <<"1">>, <<"2">>, <<"1">>, close >>
BarHeader == << <<"D">>, <<"O">>, <<"H">>, <<"L">>, <<"C">> >>

CsvDown == CsvReply(TRUE, FALSE, <<>>)
\* a header and nothing else
StooqHeaderOnly == CsvReply(TRUE, TRUE, <<BarHeader>>)
\* the only data row has N/D where the close should be
StooqNoClose == CsvReply(TRUE, TRUE, <<BarHeader, Bar(<<"N", "/", "D">>)>>)
StooqDx == CsvReply(TRUE, TRUE,
  <<BarHeader, Bar(<<"1", "0", "3", ".", "5">>), Bar(<<"N", "/", "D">>),
    Bar(<<"1", "0", "0">>), EmptyLine>>)
\* newest 84, oldest 80
StooqInr == CsvReply(TRUE, TRUE,
  <<BarHeader, Bar(<<"8", "4">>), <<<<"d">>, <<"8", "3">>>>, Bar(<<"8", "0">>)>>)

DxyStooqReplies == {CsvDown, StooqHeaderOnly, StooqNoClose, StooqDx}
UsdInrStooqReplies == {CsvDown, StooqNoClose, StooqInr}

FredHeader == << <<"D">>, <<"V">> >>
\* the newest rows carry "." (no observation); the last numeric one is 2.15
FredGood == CsvReply(TRUE, TRUE,
  <<FredHeader, << <<"d">>, <<"2", ".", "0", "1">> >>,
    << <<"d">>, <<"2", ".", "1", "5">> >>, << <<"d">>, <<".">> >>, <<<<"d">>>>, EmptyLine>>)
FredNoNumeric == CsvReply(TRUE, TRUE, <<FredHeader, << <<"d">>, <<".">> >> >>)

FredReplies == {CsvDown, FredGood, FredNoNumeric}

SbiReply(net, ok, jsonType, isJson, rows) ==
  [net |-> net, ok |-> ok, jsonType |-> jsonType, isJson |-> isJson, rows |-> rows]

SbiDown == SbiReply(TRUE, FALSE, FALSE, FALSE, <<>>)
\* status 200 with an HTML page
SbiHtml == SbiReply(TRUE, TRUE, FALSE, FALSE, <<>>)
SbiGood == SbiReply(TRUE, TRUE, TRUE, TRUE,
  <<[FundName |-> "SBI Nifty 50 ETF", LatestNAV |-> <<"2", "5", "0">>],
    [FundName |-> "SBI Gold ETF", LatestNAV |-> <<"7", "2", ".", "5">>]>>)
\* only the loosely named fund is listed
SbiLoose == SbiReply(TRUE, TRUE, TRUE, TRUE,
  <<[FundName |-> "SBI-ETF Gold", LatestNAV |-> <<"7", "3">>]>>)

SbiReplies == {SbiDown, SbiHtml, SbiGood, SbiLoose}

Fields == {"dxy", "usdInr", "realYield", "price", "rsi", "inav"}
HasFallback(f) == f \in {"dxy", "usdInr"}

\* the replies the first / second provider of a field may give
PrimaryReplies(f) ==
  CASE f = "dxy" -> DxyYahooReplies
    [] f = "usdInr" -> UsdInrYahooReplies
    [] f = "realYield" -> FredReplies
    [] f = "price" -> PriceYahooReplies
    [] f = "rsi" -> ClosesYahooReplies
    [] f = "inav" -> SbiReplies

FallbackReplies(f) ==
  CASE f = "dxy" -> DxyStooqReplies
    [] f = "usdInr" -> UsdInrStooqReplies

\* a resolver's first stage and its fallback stage
primaryStage(rev, f, p) ==
  CASE f = "dxy" -> getDxyYahoo(rev, p)
    [] f = "usdInr" -> getUsdInrYahoo(rev, p)
    [] f = "realYield" -> getRealYield(rev, p)
    [] f = "price" -> getSetfGoldPrice(rev, p)
    [] f = "rsi" -> getRsi(rev, p)
    [] f = "inav" -> getSbiGoldEtfInavSafe(rev, p)

fallbackStage(rev, f, p) ==
  CASE f = "dxy" -> getDxyStooq(rev, p)
    [] f = "usdInr" -> getUsdInrStooq(rev, p)

(* ------------------------------------------------------------------ *)
(* onRequestGet: the request, the aggregation and the response body    *)
(* ------------------------------------------------------------------ *)

\* the query parameters a handler reads
Query(inav, im, pm, rm) ==
  [inav |-> inav, inav_manual |-> im, price_manual |-> pm, rsi_manual |-> rm]

TextOff == <<"o", "f", "f">>
TextZero == <<"0">>
TextFalse == <<"f", "a", "l", "s", "e">>
TextAuto == <<"a", "u", "t", "o">>

\* url.searchParams.get(name) || fallback
paramOr(v, fallback) == IF v.present /\ v.text # <<>> THEN v.text ELSE fallback

\* inavOff of r3: off, 0 or false in any letter case
inavOff3(q) == toLowerCase(paramOr(q.inav, <<>>)) \in {TextOff, TextZero, TextFalse}

\* inavMode === "off" of r6
inavOff6(q) == toLowerCase(paramOr(q.inav, TextAuto)) = TextOff

inavOff(rev, q) ==
  CASE rev = "r3" -> inavOff3(q)
    [] rev = "r6" -> inavOff6(q)
    [] OTHER -> FALSE

\* a test that looks at inav_manual alone
hasManualInavOnly(q) == IsFinite(toNum(q.inav_manual))

\* hasManual of r5
hasManual(q) ==
  IsFinite(toNum(q.inav_manual)) \/ IsFinite(toNum(q.price_manual))
    \/ IsFinite(toNum(q.rsi_manual))

\* the resolvers a request runs, in the order the handler calls them
fieldsOf(rev, q) ==
  CASE rev = "r1" -> <<"dxy", "usdInr", "realYield">>
    [] rev = "r2" -> <<"dxy", "usdInr", "realYield", "rsi">>
    [] rev = "r4" -> <<"dxy", "usdInr", "realYield", "rsi", "inav">>
    [] rev = "r5" -> <<"dxy", "usdInr", "realYield", "price", "rsi", "inav">>
    [] OTHER -> IF inavOff(rev, q)
                THEN <<"dxy", "usdInr", "realYield", "price", "rsi">>
                ELSE <<"dxy", "usdInr", "realYield", "price", "rsi", "inav">>

Range(s) == {s[i] : i \in 1..Len(s)}

\* r1, r3, r6 wrap every resolver in safe(); r3 and r6 await them one by one
isSafe(rev) == rev \in {"r1", "r3", "r6"}
isSequential(rev) == rev \in {"r3", "r6"}

\* the label safe() is given for a field
safeLabel(rev, f) ==
  IF rev = "r6"
  THEN CASE f = "dxy" -> "dxy" [] f = "usdInr" -> "usd_inr"
         [] f = "realYield" -> "real_yield" [] f = "price" -> "setfgold_price"
         [] f = "rsi" -> "rsi14_setfgold" [] f = "inav" -> "sbi_inav"
  ELSE CASE f = "dxy" -> "dxy" [] f = "usdInr" -> "usdInr"
         [] f = "realYield" -> "realYield" [] f = "price" -> "setfGoldPrice"
         [] f = "rsi" -> "rsi" [] f = "inav" -> "sbiInav"

\* what safe() returns from its catch block
safeCatch(rev) ==
  IF rev = "r1" THEN Res(Null, Undefined, Undefined, "error", "") ELSE NullRes

\* the entry safe() pushes: `${label}: ${message}`
errorEntry(rev, f, m) == [label |-> safeLabel(rev, f), message |-> m]

\* the object the handler holds for a field that was not resolved
skipped(rev, f) ==
  IF rev = "r6" /\ f = "inav"
  THEN Res(Null, Undefined, Undefined, "sbimf", "disabled_by_query")
  ELSE NullRes

\* JSON.stringify of an object: a property whose value is undefined is left
\* out, NaN and the infinities are written as null
JSONstringify(o) ==
  LET keep == {k \in DOMAIN o : o[k].t # "undefined"}
  IN  [k \in keep |-> IF o[k].t \in {"nan", "inf"} THEN Null ELSE o[k]]

\* obj?.source ?? null, flattened: the provider (null when there is no
\* source object) and the note
sourceOf(name, r) ==
  (("freshness." \o name \o ".provider") :> (IF r.obj THEN Str(r.provider) ELSE Null))
  @@ (("freshness." \o name \o ".note") :>
        (IF r.obj /\ r.note # "" THEN Str(r.note) ELSE Undefined))

val(r) == Coalesce(r.value, Null)
numOrNull(x) == IF IsNumber(x) /\ IsFinite(x) THEN x ELSE Null

\* the result object of r1
result1(q, R) ==
  ("dxy" :> val(R["dxy"])) @@ ("usdInr" :> val(R["usdInr"]))
  @@ ("usdInrChangePct30d" :> Coalesce(R["usdInr"].pct30d, Null))
  @@ ("usdInrTrend" :> Coalesce(R["usdInr"].trend, Null))
  @@ ("realYield" :> val(R["realYield"]))
  @@ ("rsi14Setfgold" :> Null) @@ ("setfGoldPrice" :> Null)
  @@ ("sbiGoldEtfInav" :> Null) @@ ("asOf" :> IsoNow)
  @@ sourceOf("dxy", R["dxy"]) @@ sourceOf("usdInr", R["usdInr"])
  @@ sourceOf("realYield", R["realYield"]) @@ ("errors" :> Arr)

\* usdInrTrend as r2's handler derives it
trend2(pct30d) ==
  IF ~IsNumber(pct30d) THEN Str("stable")
  ELSE IF JsGt(pct30d, TrendThreshold) THEN Str("weakening")
  ELSE IF JsLt(pct30d, JsSub(Num(0), TrendThreshold)) THEN Str("strengthening")
  ELSE Str("stable")

\* the body object of r2: the values are copied as they are
result2(q, R) ==
  ("dxy" :> R["dxy"].value) @@ ("realYield" :> R["realYield"].value)
  @@ ("usdInr" :> R["usdInr"].value)
  @@ ("usdInrChangePct30d" :> R["usdInr"].pct30d)
  @@ ("usdInrTrend" :> trend2(R["usdInr"].pct30d))
  @@ ("rsi14Setfgold" :> val(R["rsi"])) @@ ("asOf" :> IsoNow)
  @@ sourceOf("dxy", R["dxy"]) @@ sourceOf("usdInr", R["usdInr"])
  @@ sourceOf("realYield", R["realYield"]) @@ sourceOf("rsi", R["rsi"])
  @@ ("sources" :> Arr)

\* the result object of r3
result3(q, R) ==
  ("dxy" :> val(R["dxy"])) @@ ("usdInr" :> val(R["usdInr"]))
  @@ ("usdInrChangePct30d" :> Coalesce(R["usdInr"].pct30d, Null))
  @@ ("usdInrTrend" :> Coalesce(R["usdInr"].trend, Null))
  @@ ("realYield" :> numOrNull(R["realYield"].value))
  @@ ("setfGoldPrice" :> numOrNull(R["price"].value))
  @@ ("rsi14Setfgold" :> val(R["rsi"]))
  @@ ("sbiGoldEtfInav" :> val(R["inav"])) @@ ("asOf" :> IsoNow)
  @@ sourceOf("dxy", R["dxy"]) @@ sourceOf("usdInr", R["usdInr"])
  @@ ("freshness.realYield.provider" :> Str("fred"))
  @@ ("freshness.setfGoldPrice.provider" :> Str("yahoo"))
  @@ sourceOf("rsi", R["rsi"])
  @@ ("freshness.sbiInav.provider" :> Str("sbimf"))
  @@ ("freshness.sbiInav.note" :>
        (IF inavOff3(q) THEN Str("inav_off")
         ELSE IF R["inav"].obj
         THEN (IF R["inav"].note # "" THEN Str(R["inav"].note) ELSE Undefined)
         ELSE Str("inav_fetch_failed")))
  @@ ("errors" :> Arr)

\* the result object of r4
result4(q, R) ==
  ("dxy" :> val(R["dxy"])) @@ ("realYield" :> val(R["realYield"]))
  @@ ("usdInr" :> val(R["usdInr"]))
  @@ ("usdInrChangePct30d" :> Coalesce(R["usdInr"].pct30d, Null))
  @@ ("usdInrTrend" :> Coalesce(R["usdInr"].trend, Null))
  @@ ("rsi14Setfgold" :> val(R["rsi"]))
  @@ ("sbiGoldEtfInav" :> val(R["inav"])) @@ ("asOf" :> IsoNow)
  @@ sourceOf("dxy", R["dxy"]) @@ sourceOf("usdInr", R["usdInr"])
  @@ sourceOf("realYield", R["realYield"]) @@ sourceOf("rsi", R["rsi"])
  @@ sourceOf("sbiInav", R["inav"]) @@ ("sources" :> Arr)

\* a merge that keeps the auto value whatever the override is
chosenIgnoresManual(manual, r) == val(r)

\* Number.isFinite(manual) ? manual : (obj?.value ?? null)
chosen(manual, r) == IF IsFinite(manual) THEN manual ELSE val(r)
chosenMode(manual) == IF IsFinite(manual) THEN Str("manual") ELSE Str("auto")

\* the result object of r5
result5(q, R) ==
  LET body(inavManual, priceManual, rsiManual) ==
      ("asOf" :> IsoNow)
      @@ ("dxy" :> val(R["dxy"])) @@ ("realYield" :> val(R["realYield"]))
      @@ ("usdInr" :> val(R["usdInr"]))
      @@ ("usdInrChangePct30d" :> Coalesce(R["usdInr"].pct30d, Null))
      @@ ("usdInrTrend" :> Coalesce(R["usdInr"].trend, Null))
      @@ ("setfGold.autoPrice" :> val(R["price"]))
      @@ ("setfGold.priceChosen" :> chosen(priceManual, R["price"]))
      @@ ("setfGold.priceChosenMode" :> chosenMode(priceManual))
      @@ ("rsi.autoRsi14" :> val(R["rsi"]))
      @@ ("rsi.rsiChosen" :> chosen(rsiManual, R["rsi"]))
      @@ ("rsi.rsiChosenMode" :> chosenMode(rsiManual))
      @@ ("inav.autoInav" :> val(R["inav"]))
      @@ ("inav.inavChosen" :> chosen(inavManual, R["inav"]))
      @@ ("inav.inavChosenMode" :> chosenMode(inavManual))
      @@ sourceOf("dxy", R["dxy"]) @@ sourceOf("usdInr", R["usdInr"])
      @@ sourceOf("realYield", R["realYield"]) @@ sourceOf("setfPrice", R["price"])
      @@ sourceOf("rsi", R["rsi"]) @@ sourceOf("sbiInav", R["inav"])
      @@ ("notes.manualOverrides.inav_manual" :> finiteOrNull(inavManual))
      @@ ("notes.manualOverrides.price_manual" :> finiteOrNull(priceManual))
      @@ ("notes.manualOverrides.rsi_manual" :> finiteOrNull(rsiManual))
  IN  body(toNum(q.inav_manual), toNum(q.price_manual), toNum(q.rsi_manual))

\* the result object of r6
result6(q, R) ==
  ("dxy" :> val(R["dxy"])) @@ ("usdInr" :> val(R["usdInr"]))
  @@ ("usdInrChangePct30d" :> Coalesce(R["usdInr"].pct30d, Null))
  @@ ("usdInrTrend" :> Coalesce(R["usdInr"].trend, Null))
  @@ ("realYield" :> val(R["realYield"]))
  @@ ("setfGoldPrice" :> val(R["price"]))
  @@ ("rsi14Setfgold" :> val(R["rsi"]))
  @@ ("sbiGoldEtfInav" :> val(R["inav"])) @@ ("asOf" :> IsoNow)
  @@ sourceOf("dxy", R["dxy"]) @@ sourceOf("usdInr", R["usdInr"])
  @@ sourceOf("realYield", R["realYield"]) @@ sourceOf("setfGoldPrice", R["price"])
  @@ sourceOf("rsi", R["rsi"]) @@ sourceOf("sbiInav", R["inav"])
  @@ ("errors" :> Arr)

resultOf(rev, q, R) ==
  CASE rev = "r1" -> result1(q, R) [] rev = "r2" -> result2(q, R)
    [] rev = "r3" -> result3(q, R) [] rev = "r4" -> result4(q, R)
    [] rev = "r5" -> result5(q, R) [] rev = "r6" -> result6(q, R)

Response(status, body, errs) == [status |-> status, body |-> body, errors |-> errs]
NoResponse == Response(0, <<>>, <<>>)

\* the 200 response: new Response(JSON.stringify(result), {status: 200})
okResponse(rev, q, R, errs) ==
  Response(200, JSONstringify(resultOf(rev, q, R)), IF isSafe(rev) THEN errs ELSE <<>>)

\* the catch block of r2: status 502, {error, message}
errorResponse2(m) ==
  Response(502, JSONstringify(("error" :> Str("fetch_failed")) @@ ("message" :> Str(m))),
           <<>>)

\* the catch block of r4, r5, r6: status 500, {error, message, asOf}
errorResponse500(m) ==
  Response(500, JSONstringify(("error" :> Str("market_api_failed"))
                              @@ ("message" :> Str(m)) @@ ("asOf" :> IsoNow)), <<>>)

errorResponse(rev, m) == IF rev = "r2" THEN errorResponse2(m) ELSE errorResponse500(m)

(* ------------------------------------------------------------------ *)
(* State                                                               *)
(* ------------------------------------------------------------------ *)

VARIABLES
  rev,         \* the revision of market.js that is deployed
  query,       \* the query parameters of the request being served
  pc,          \* where onRequestGet is: start, match, await, done
  rs,          \* per field, the resolver's promise: its stage and outcome
  errors,      \* the errors array safe() pushes to
  response,    \* the Response onRequestGet returned, NoResponse before
  cache,       \* caches.default: the entries stored, by request URL
  pendingPut,  \* cache.put calls handed to ctx.waitUntil, not yet done
  cacheOps,    \* the cache calls this request made, in order
  served,      \* how many requests have been received
  replies,     \* per field, what its providers replied to this request
  call,        \* a helper function called on its own: its arguments and result
  sw           \* the service worker: its caches, fetch events and cache writes

vars ==
  <<rev, query, pc, rs, errors, response, cache, pendingPut, cacheOps, served, replies,
    call, sw>>

\* values the manual override parameters are given: absent, empty or not a
\* number, and a number (with white space, or with text after it)
InavManualParams == {Absent, Given(<<>>), Given(<<" ", "1", "2", ".", "5", " ">>)}
PriceManualParams == {Absent, Given(<<"n", "o">>), Given(<<"7", "0", "x">>)}
RsiManualParams == {Absent, Given(InfinityText), Given(<<"5", "5">>)}

\* values the inav parameter is given
InavParams ==
  {Absent, Given(TextOff), Given(<<"O", "F", "F">>), Given(TextZero),
   Given(<<"F", "a", "l", "s", "e">>), Given(TextAuto)}

NoQuery == Query(Absent, Absent, Absent, Absent)

\* every request r5 distinguishes
Queries5 ==
  {Query(Absent, a, b, c) :
     a \in InavManualParams, b \in PriceManualParams, c \in RsiManualParams}

\* the requests a revision is sent while its resolvers are followed step by
\* step: r3 and r6 read inav; r5 reads the three manual overrides (none, or
\* all three); the others read no parameter at all
Queries(r) ==
  CASE r \in {"r3", "r6"} -> {Query(i, Absent, Absent, Absent) : i \in InavParams}
    [] r = "r5" ->
         {NoQuery,
          Query(Absent, Given(<<" ", "1", "2", ".", "5", " ">>),
                Given(<<"7", "0", "x">>), Given(<<"5", "5">>))}
    [] OTHER -> {NoQuery}

NoOut == [kind |-> "none", res |-> NullRes, msg |-> ""]
\* a provider that was not called (or has not replied yet)
NoReply == [net |-> FALSE, ok |-> FALSE, called |-> FALSE]
NoReplies == [f \in Fields |-> [primary |-> NoReply, fallback |-> NoReply]]
NoCall == [fn |-> "none"]
NoWorker == [phase |-> "none"]
Idle == [st |-> "idle", out |-> NoOut]
InFlight == [st |-> "primary", out |-> NoOut]

Init ==
  /\ rev \in Revs
  /\ query \in Queries(rev)
  /\ pc = "start"
  /\ rs = [f \in Fields |-> Idle]
  /\ errors = <<>>
  /\ response = NoResponse
  /\ cache = {}
  /\ pendingPut = {}
  /\ cacheOps = <<>>
  /\ served = 1
  /\ replies = NoReplies
  /\ call = NoCall
  /\ sw = NoWorker

applicable == Range(fieldsOf(rev, query))

\* what the handler holds for a field once its promise settled: the
\* resolver's object, or what safe() returned from its catch block
held(r, f, o) ==
  IF o.kind = "reject" THEN safeCatch(r) ELSE o.res

heldAll(r, q, state) ==
  [f \in Fields |->
     IF f \in Range(fieldsOf(r, q)) THEN held(r, f, state[f].out) ELSE skipped(r, f)]

\* the handler runs up to its first await of the aggregation: Promise.all
\* starts every resolver, the sequential revisions start the first one
begin ==
  /\ rs' = [f \in Fields |->
              IF isSequential(rev)
              THEN (IF f = fieldsOf(rev, query)[1] THEN InFlight ELSE Idle)
              ELSE (IF f \in applicable THEN InFlight ELSE Idle)]
  /\ pc' = "await"

\* an entry into onRequestGet that consults the cache for every r5 request
StartAlwaysMatches ==
  /\ pc = "start"
  /\ IF rev = "r5"
     THEN /\ pc' = "match"
          /\ cacheOps' = Append(cacheOps, "match")
          /\ UNCHANGED rs
     ELSE /\ begin
          /\ UNCHANGED cacheOps
  /\ UNCHANGED <<sw, call, rev, query, errors, response, cache, pendingPut, served, replies>>

\* onRequestGet is entered.  r5 without a manual override awaits
\* cache.match first; every other request goes straight to the resolvers.
Start ==
  /\ pc = "start"
  /\ IF rev = "r5" /\ ~hasManual(query)
     THEN /\ pc' = "match"
          /\ cacheOps' = Append(cacheOps, "match")
          /\ UNCHANGED rs
     ELSE /\ begin
          /\ UNCHANGED cacheOps
  /\ UNCHANGED <<sw, call, rev, query, errors, response, cache, pendingPut, served, replies>>

cachedFor(q) == {e \in cache : e.key = q}

\* cache.match found nothing
CacheMiss ==
  /\ pc = "match"
  /\ cachedFor(query) = {}
  /\ begin
  /\ UNCHANGED <<sw, call, rev, query, errors, response, cache, pendingPut, cacheOps, served,
                 replies>>

\* the handler resumes at the first promise that is decided, as it would
\* with Promise.race in place of Promise.all
continueAtFirst(f, o, rs1, errs1) ==
  IF pc # "await"
  THEN UNCHANGED <<pc, response, pendingPut, cacheOps>>
  ELSE IF o.kind = "reject" /\ ~isSafe(rev)
  THEN /\ pc' = "done"
       /\ response' = errorResponse(rev, o.msg)
       /\ UNCHANGED <<pendingPut, cacheOps>>
  ELSE /\ pc' = "done"
       /\ response' = okResponse(rev, query, heldAll(rev, query, rs1), errs1)
       /\ UNCHANGED <<pendingPut, cacheOps>>

\* the handler's continuation once the promise it awaits is decided, given
\* the resolvers' new state rs1 and errors errs1 after field f ended with o
continue(f, o, rs1, errs1) ==
  IF pc # "await"
  THEN UNCHANGED <<pc, response, pendingPut, cacheOps>>
  ELSE IF o.kind = "reject" /\ ~isSafe(rev)
  THEN \* Promise.all rejects with the first rejection: the catch block
       /\ pc' = "done"
       /\ response' = errorResponse(rev, o.msg)
       /\ UNCHANGED <<pendingPut, cacheOps>>
  ELSE IF \A g \in applicable : rs1[g].st = "settled"
  THEN /\ pc' = "done"
       /\ response' = okResponse(rev, query, heldAll(rev, query, rs1), errs1)
       /\ IF rev = "r5" /\ ~hasManual(query)
          THEN \* ctx.waitUntil(cache.put(cacheKey, response.clone()))
               /\ pendingPut' = pendingPut \cup {[key |-> query, resp |-> response']}
               /\ cacheOps' = Append(cacheOps, "put")
          ELSE UNCHANGED <<pendingPut, cacheOps>>
  ELSE UNCHANGED <<pc, response, pendingPut, cacheOps>>

\* the position of field f in the handler's call order
indexOf(f) ==
  LET at(order) == CHOOSE i \in 1..Len(order) : order[i] = f
  IN  at(fieldsOf(rev, query))

\* a resolver's promise settles with outcome o; safe() records a rejection;
\* a sequential handler then calls the next resolver
finish(f, o) ==
  LET next(order, i, settled) ==
        IF isSequential(rev) /\ i < Len(order)
        THEN [settled EXCEPT ![order[i + 1]] = InFlight]
        ELSE settled
  IN  /\ rs' = next(fieldsOf(rev, query), indexOf(f),
                    [rs EXCEPT ![f] = [st |-> "settled", out |-> o]])
      /\ errors' = IF o.kind = "reject" /\ isSafe(rev)
                   THEN Append(errors, errorEntry(rev, f, o.msg)) ELSE errors
      /\ continue(f, o, rs', errors')

\* the first provider of field f replies
SettlePrimary(f) ==
  /\ rs[f].st = "primary"
  /\ \E p \in PrimaryReplies(f) :
       LET settle(o) ==
             IF o.kind = "fallback"
             THEN /\ rs' = [rs EXCEPT ![f].st = "fallback"]
                  /\ UNCHANGED <<errors, pc, response, pendingPut, cacheOps>>
             ELSE finish(f, o)
       IN  /\ settle(primaryStage(rev, f, p))
           /\ replies' = [replies EXCEPT ![f].primary = p]
  /\ UNCHANGED <<sw, call, rev, query, cache, served>>

\* the fallback provider of field f replies
SettleFallback(f) ==
  /\ rs[f].st = "fallback"
  /\ \E p \in FallbackReplies(f) :
       /\ finish(f, fallbackStage(rev, f, p))
       /\ replies' = [replies EXCEPT ![f].fallback = p]
  /\ UNCHANGED <<sw, call, rev, query, cache, served>>

\* a cache.put handed to ctx.waitUntil completes
CachePut ==
  /\ \E e \in pendingPut :
       /\ cache' = {c \in cache : c.key # e.key} \cup {e}
       /\ pendingPut' = pendingPut \ {e}
  /\ UNCHANGED <<sw, call, rev, query, pc, rs, errors, response, cacheOps, served, replies>>

\* the promise of a cache.put handed to ctx.waitUntil rejects
CachePutFails ==
  /\ \E e \in pendingPut : pendingPut' = pendingPut \ {e}
  /\ UNCHANGED <<sw, call, rev, query, pc, rs, errors, response, cache, cacheOps, served,
                 replies>>

Next ==
  \/ Start
  \/ CacheMiss
  \/ \E f \in Fields : SettlePrimary(f)
  \/ \E f \in Fields : SettleFallback(f)
  \/ CachePut
  \/ CachePutFails

Spec == Init /\ [][Next]_vars


(* ------------------------------------------------------------------ *)
(* The edge cache of r5 over several requests.  Requests are served    *)
(* one after another; the resolvers of a request are followed as one   *)
(* step over an upstream world (what every provider replies); a        *)
(* cache.put handed to ctx.waitUntil may complete at any later time.   *)
(* ------------------------------------------------------------------ *)

\* how many requests the worker receives
MaxRequests == 2

World(dxyY, dxyS, inrY, inrS, fred, price, closes, sbi) ==
  [primary |-> [dxy |-> dxyY, usdInr |-> inrY, realYield |-> fred,
                price |-> price, rsi |-> closes, inav |-> sbi],
   fallback |-> [dxy |-> dxyS, usdInr |-> inrS]]

\* every provider answers
WorldUp == World(YDxy, StooqDx, YInr, StooqInr, FredGood, YPrice, YClosesMixed, SbiGood)
\* Yahoo and the NAV listing are down, Stooq and FRED answer
WorldYahooDown ==
  World(YDown, StooqDx, YDown, StooqInr, FredGood, YDown, YDown, SbiDown)
\* only FRED is down
WorldFredDown == World(YDxy, StooqDx, YInr, StooqInr, CsvDown, YPrice, YClosesMixed, SbiGood)
\* every provider is down
WorldDown == World(YDown, CsvDown, YDown, CsvDown, CsvDown, YDown, YDown, SbiDown)

Worlds == {WorldUp, WorldYahooDown, WorldFredDown, WorldDown}

\* a resolver run to its end: the first provider, then the fallback
resolve(r, f, w) ==
  LET second(o) ==
        IF o.kind = "fallback" THEN fallbackStage(r, f, w.fallback[f]) ELSE o
  IN  second(primaryStage(r, f, w.primary[f]))

InitCache ==
  /\ rev = "r5"
  /\ query = NoQuery
  /\ pc = "idle"
  /\ rs = [f \in Fields |-> Idle]
  /\ errors = <<>>
  /\ response = NoResponse
  /\ cache = {}
  /\ pendingPut = {}
  /\ cacheOps = <<>>
  /\ served = 0
  /\ replies = NoReplies
  /\ call = NoCall
  /\ sw = NoWorker

\* the worker is invoked with the next request
Receive ==
  /\ pc \in {"idle", "done"}
  /\ served < MaxRequests
  /\ \E q \in Queries5 : query' = q
  /\ pc' = "start"
  /\ rs' = [f \in Fields |-> Idle]
  /\ errors' = <<>>
  /\ response' = NoResponse
  /\ cacheOps' = <<>>
  /\ served' = served + 1
  /\ replies' = NoReplies
  /\ UNCHANGED <<sw, call, rev, cache, pendingPut>>

\* cache.match found an entry: if (cached) return cached
CacheHit ==
  /\ pc = "match"
  /\ \E e \in cachedFor(query) : response' = e.resp
  /\ pc' = "done"
  /\ UNCHANGED <<sw, call, rev, query, rs, errors, cache, pendingPut, cacheOps, served, replies>>

\* a handler that awaits cache.put before it returns the response
ResolveAwaitsPut(w) ==
  /\ pc = "await"
  /\ rs' = [f \in Fields |-> [st |-> "settled", out |-> resolve(rev, f, w)]]
  /\ replies' = [f \in Fields |->
                   [primary |-> w.primary[f],
                    fallback |-> IF primaryStage(rev, f, w.primary[f]).kind = "fallback"
                                 THEN w.fallback[f] ELSE NoReply]]
  /\ pc' = "done"
  /\ IF \E f \in Fields : rs'[f].out.kind = "reject"
     THEN /\ \E f \in Fields :
               /\ rs'[f].out.kind = "reject"
               /\ response' = errorResponse(rev, rs'[f].out.msg)
          /\ UNCHANGED <<cache, cacheOps>>
     ELSE /\ response' = okResponse(rev, query, heldAll(rev, query, rs'), errors)
          /\ IF ~hasManual(query)
             THEN /\ cache' = {c \in cache : c.key # query}
                                \cup {[key |-> query, resp |-> response']}
                  /\ cacheOps' = Append(cacheOps, "put")
             ELSE UNCHANGED <<cache, cacheOps>>
  /\ UNCHANGED <<sw, call, rev, query, errors, pendingPut, served>>

\* await Promise.all([...]) and what follows it, over the world w
Resolve(w) ==
  /\ pc = "await"
  /\ rs' = [f \in Fields |-> [st |-> "settled", out |-> resolve(rev, f, w)]]
  /\ replies' = [f \in Fields |->
                   [primary |-> w.primary[f],
                    fallback |-> IF primaryStage(rev, f, w.primary[f]).kind = "fallback"
                                 THEN w.fallback[f] ELSE NoReply]]
  /\ pc' = "done"
  /\ IF \E f \in Fields : rs'[f].out.kind = "reject"
     THEN /\ \E f \in Fields :
               /\ rs'[f].out.kind = "reject"
               /\ response' = errorResponse(rev, rs'[f].out.msg)
          /\ UNCHANGED <<pendingPut, cacheOps>>
     ELSE /\ response' = okResponse(rev, query, heldAll(rev, query, rs'), errors)
          /\ IF ~hasManual(query)
             THEN /\ pendingPut' = pendingPut \cup {[key |-> query, resp |-> response']}
                  /\ cacheOps' = Append(cacheOps, "put")
             ELSE UNCHANGED <<pendingPut, cacheOps>>
  /\ UNCHANGED <<sw, call, rev, query, errors, cache, served>>

NextCache ==
  \/ Receive
  \/ Start
  \/ CacheHit
  \/ CacheMiss
  \/ \E w \in Worlds : Resolve(w)
  \/ CachePut
  \/ CachePutFails

SpecCache == InitCache /\ [][NextCache]_vars


(* ------------------------------------------------------------------ *)
(* Reading a state: what the providers did, what the response holds    *)
(* ------------------------------------------------------------------ *)

\* the key of the response body that holds the value resolved for field f
valueKey(r, f) ==
  CASE f = "dxy" -> "dxy"
    [] f = "usdInr" -> "usdInr"
    [] f = "realYield" -> "realYield"
    [] f = "price" -> IF r = "r5" THEN "setfGold.autoPrice" ELSE "setfGoldPrice"
    [] f = "rsi" -> IF r = "r5" THEN "rsi.autoRsi14" ELSE "rsi14Setfgold"
    [] f = "inav" -> IF r = "r5" THEN "inav.autoInav" ELSE "sbiGoldEtfInav"

\* the provider's client failed on reply p: the client threw (non-success
\* status, network fault, parse failure, too little data); the NAV client
\* reports its failure as a note
clientThrew(r, f, stage, p) ==
  IF stage = "fallback" THEN fetchStooqClose(r, p, f = "usdInr").threw
  ELSE CASE f \in {"dxy", "usdInr", "price"} -> fetchYahooChart(r, p).threw
         [] f = "realYield" -> fetchFredLastValue(p).threw
         [] f = "rsi" -> fetchYahooCloses(r, p).threw
         [] f = "inav" -> getSbiGoldEtfInavSafe(r, p).res.note = "inav_fetch_failed"

\* field f's resolver has ended and every provider it has failed
everyProviderFailed(f) ==
  /\ rs[f].st = "settled"
  /\ replies[f].primary # NoReply
  /\ clientThrew(rev, f, "primary", replies[f].primary)
  /\ HasFallback(f) =>
       /\ replies[f].fallback # NoReply
       /\ clientThrew(rev, f, "fallback", replies[f].fallback)

\* field f's resolver has ended with a finite value
succeeded(f) ==
  /\ rs[f].st = "settled"
  /\ rs[f].out.kind = "done"
  /\ IsFinite(rs[f].out.res.value)

allSettled == \A f \in applicable : rs[f].st = "settled"

\* the entries of the response's errors array that name field f
errorsNaming(f) ==
  {i \in 1..Len(response.errors) : response.errors[i].label = safeLabel(rev, f)}

\* the response body holds value v under key k
bodyHas(k, v) == k \in DOMAIN response.body /\ response.body[k] = v

(* ------------------------------------------------------------------ *)
(* Error handling of the aggregation                                   *)
(* ------------------------------------------------------------------ *)

\* C1: partial-failure isolation.  When the handler has responded, every
\* resolver has ended, every provider of one field F failed and every other
\* field's resolver ended with a finite value, the response body holds each
\* other field's value as its resolver produced it.
C1_PartialFailureIsolation ==
  (pc = "done" /\ allSettled) =>
    \A F \in applicable :
      (everyProviderFailed(F) /\ \A G \in applicable \ {F} : succeeded(G)) =>
        \A G \in applicable \ {F} : bodyHas(valueKey(rev, G), rs[G].out.res.value)

\* C2: whatever the upstream providers do, the response the handler returns
\* has HTTP status 200.
C2_AlwaysStatus200 ==
  pc = "done" => response.status = 200

\* C3: when every provider of a field failed, the response holds null for
\* that field and its errors array has exactly one entry naming the field;
\* for every field, RSI, price and NAV included.
C3_NullAndOneError ==
  pc = "done" =>
    \A F \in applicable :
      everyProviderFailed(F) =>
        /\ bodyHas(valueKey(rev, F), Null)
        /\ Cardinality(errorsNaming(F)) = 1


(* ------------------------------------------------------------------ *)
(* The fallback chain of getDxy and getUsdInr                          *)
(* ------------------------------------------------------------------ *)

\* what Stooq's client returned for field f (its newest usable close)
stooqLast(f) == fetchStooqClose(rev, replies[f].fallback, f = "usdInr").last

\* Yahoo failed for field f, Stooq replied and its client returned a close
yahooFailedStooqSucceeded(f) ==
  /\ rs[f].st = "settled"
  /\ clientThrew(rev, f, "primary", replies[f].primary)
  /\ replies[f].fallback # NoReply
  /\ ~clientThrew(rev, f, "fallback", replies[f].fallback)
  /\ IsFinite(stooqLast(f))

\* C4: when Yahoo failed for a field and Stooq succeeded, the resolver's
\* value is Stooq's value, its source names "stooq", no entry naming the
\* field is in the errors array, and a 200 response built from it holds
\* that value and that provider.
C4_FallbackNamesStooq ==
  \A f \in {"dxy", "usdInr"} :
    yahooFailedStooqSucceeded(f) =>
      /\ rs[f].out.kind = "done"
      /\ rs[f].out.res.value = stooqLast(f)
      /\ rs[f].out.res.provider = "stooq"
      /\ \A i \in 1..Len(errors) : errors[i].label # safeLabel(rev, f)
      /\ (pc = "done" /\ allSettled /\ response.status = 200) =>
           /\ bodyHas(valueKey(rev, f), stooqLast(f))
           /\ bodyHas("freshness." \o f \o ".provider", Str("stooq"))
           /\ errorsNaming(f) = {}

\* Yahoo was down for the dollar index, Stooq's newest close 103.5 is what a
\* handler with an errors array answered
C4_Witness ==
  /\ rev = "r1"
  /\ pc = "done"
  /\ replies["dxy"].primary = YDown
  /\ replies["dxy"].fallback = StooqDx
  /\ bodyHas("dxy", Rat(207, 2))
  /\ bodyHas("freshness.dxy.provider", Str("stooq"))
  /\ replies["realYield"].primary = CsvDown
  /\ Len(response.errors) = 1

\* the primary of field f answered, but without a finite latest price
yahooUnusable(f) ==
  /\ replies[f].primary # NoReply
  /\ ~clientThrew(rev, f, "primary", replies[f].primary)
  /\ ~IsFinite(fetchYahooChart(rev, replies[f].primary).latestPrice)

\* C5: a resolved value is null (or missing) only when every provider failed:
\* after a primary answer without a finite latest price the fallback is
\* consulted and its finite value is the resolved value, and a fallback
\* answer with no usable close rejects instead of resolving to no value.
C5_NullOnlyWhenAllFailed ==
  \A f \in {"dxy", "usdInr"} :
    rs[f].st = "settled" =>
      /\ (rs[f].out.kind = "done" /\ ~IsFinite(rs[f].out.res.value)) =>
           everyProviderFailed(f)
      /\ yahooUnusable(f) =>
           /\ replies[f].fallback # NoReply
           /\ IsFinite(stooqLast(f)) => rs[f].out.res.value = stooqLast(f)
      /\ (/\ replies[f].fallback # NoReply
          /\ ~clientThrew(rev, f, "fallback", replies[f].fallback)
          /\ ~IsFinite(stooqLast(f))) => rs[f].out.kind = "reject"


(* ------------------------------------------------------------------ *)
(* Manual overrides and the edge cache (r5)                            *)
(* ------------------------------------------------------------------ *)

\* C6: over any sequence of requests, a request that carries a numeric
\* manual override makes no cache call at all (no cache.match, so it is
\* never answered from the cache, and no cache.put), and no entry stored
\* in the cache or waiting to be stored belongs to such a request.
C6_ManualBypassesCache ==
  /\ hasManual(query) =>
       /\ cacheOps = <<>>
       /\ pc # "match"
       /\ \A e \in cache \cup pendingPut : e.key # query
  /\ \A e \in cache \cup pendingPut : ~hasManual(e.key)

\* the second request carries overrides and was answered with fresh data
\* while the cache held the first request's response
C6_Witness ==
  /\ served = 2
  /\ hasManual(query)
  /\ pc = "done"
  /\ response.status = 200
  /\ cache # {}
  /\ bodyHas("rsi.rsiChosenMode", Str("manual"))

\* the three overridable fields: query parameter, resolver, body keys
Overridable ==
  {[param |-> "inav_manual", field |-> "inav", auto |-> "inav.autoInav",
    chosen |-> "inav.inavChosen", mode |-> "inav.inavChosenMode",
    source |-> "freshness.sbiInav.provider"],
   [param |-> "price_manual", field |-> "price", auto |-> "setfGold.autoPrice",
    chosen |-> "setfGold.priceChosen", mode |-> "setfGold.priceChosenMode",
    source |-> "freshness.setfPrice.provider"],
   [param |-> "rsi_manual", field |-> "rsi", auto |-> "rsi.autoRsi14",
    chosen |-> "rsi.rsiChosen", mode |-> "rsi.rsiChosenMode",
    source |-> "freshness.rsi.provider"]}

\* the number each parameter text of the requests stands for (none for an
\* absent, empty or non-numeric text)
numberIn(v) ==
  CASE v = Given(<<" ", "1", "2", ".", "5", " ">>) -> Rat(25, 2)
    [] v = Given(<<"7", "0", "x">>) -> Num(70)
    [] v = Given(<<"5", "5">>) -> Num(55)
    [] OTHER -> Null

\* C7: in a 200 response of r5, for each overridable field: a parameter
\* that is a finite number is the chosen value and the mode is "manual";
\* otherwise the chosen value is the auto value and the mode is "auto".  The
\* auto value and its provider are reported as the resolver produced them in
\* both cases, and nothing here depends on the other two parameters.
C7_ChosenAndMode ==
  (pc = "done" /\ response.status = 200) =>
    \A o \in Overridable :
      /\ toNum(query[o.param]) = numberIn(query[o.param])
      /\ IF IsFinite(numberIn(query[o.param]))
         THEN /\ bodyHas(o.chosen, numberIn(query[o.param]))
              /\ bodyHas(o.mode, Str("manual"))
         ELSE /\ o.auto \in DOMAIN response.body
              /\ bodyHas(o.chosen, response.body[o.auto])
              /\ bodyHas(o.mode, Str("auto"))
      /\ rs[o.field].st = "settled" =>
           /\ bodyHas(o.auto, val(rs[o.field].out.res))
           /\ bodyHas(o.source, Str(rs[o.field].out.res.provider))

\* only inav_manual is numeric: the NAV is the manual 12.5 beside the auto
\* 72.5, price and RSI stay on their auto values
C7_Witness ==
  /\ rev = "r5"
  /\ pc = "done"
  /\ response.status = 200
  /\ query = Query(Absent, Given(<<" ", "1", "2", ".", "5", " ">>),
                   Given(<<"n", "o">>), Given(InfinityText))
  /\ bodyHas("inav.inavChosen", Rat(25, 2))
  /\ bodyHas("inav.inavChosenMode", Str("manual"))
  /\ bodyHas("inav.autoInav", Rat(145, 2))
  /\ bodyHas("setfGold.priceChosen", Num(71))
  /\ bodyHas("setfGold.priceChosenMode", Str("auto"))
  /\ bodyHas("rsi.rsiChosenMode", Str("auto"))

(* ------------------------------------------------------------------ *)
(* Scheduling and the shape of the response                            *)
(* ------------------------------------------------------------------ *)

\* C8: fan-out and fan-in.  While the handler waits, the resolver of every
\* applicable field has been started; once it has responded, every
\* applicable resolver has settled.
C8_FanOutFanIn ==
  /\ pc = "await" => \A f \in applicable : rs[f].st # "idle"
  /\ pc = "done" => \A f \in applicable : rs[f].st = "settled"

\* C9: every response body, the error envelope included, holds asOf, the
\* ISO-8601 text of the request time.
C9_AsOfAlways ==
  pc = "done" => bodyHas("asOf", IsoNow)

\* the scalar keys the frontend reads
FrontendKeys ==
  {"dxy", "usdInr", "usdInrChangePct30d", "realYield", "rsi14Setfgold", "setfGoldPrice"}

\* C10: in every 200 response each scalar key the frontend reads is present
\* and holds a finite number or null.
C10_NullSafety ==
  (pc = "done" /\ response.status = 200) =>
    \A k \in FrontendKeys :
      /\ k \in DOMAIN response.body
      /\ response.body[k].t \in {"num", "null"}

(* ------------------------------------------------------------------ *)
(* The inav feature toggle (r3, r6)                                    *)
(* ------------------------------------------------------------------ *)

\* the inav parameter reads off, 0 or false, in any letter case
toggledOff ==
  query.inav.present /\ toLowerCase(query.inav.text) \in {TextOff, TextZero, TextFalse}

\* C11: in the revisions that read the inav parameter: when it is off, 0 or
\* false in any letter case the NAV provider is never called, a 200 response
\* holds null for sbiGoldEtfInav and no errors entry names the field; for
\* any other value, or without the parameter, the provider has been called
\* by the time the handler responds.
C11_InavToggle ==
  rev \in {"r3", "r6"} =>
    /\ toggledOff =>
         /\ rs["inav"].st = "idle"
         /\ replies["inav"].primary = NoReply
         /\ (pc = "done" /\ response.status = 200) =>
              /\ bodyHas("sbiGoldEtfInav", Null)
              /\ errorsNaming("inav") = {}
    /\ (~toggledOff /\ pc = "done") => replies["inav"].primary # NoReply

(* ------------------------------------------------------------------ *)
(* The helper functions called on their own.  One call is made on one  *)
(* argument drawn from the sets below; call records the argument and   *)
(* what the function returned in the deployed revision.                *)
(* ------------------------------------------------------------------ *)

\* the longest series of closes handed to computeRsi14, and the largest
\* day-to-day step of a series
MaxCloses == 17
MaxStep == 3

\* len closes from 100 that rise by up and fall by down in turn
Closes(len, up, down) ==
  [i \in 1..len |-> Num(100 + up * (i \div 2) - down * ((i - 1) \div 2))]

RegressionCloses ==
  <<Num(100), Num(102), Num(101), Num(103), Num(106), Num(105), Num(107), Num(110),
    Num(108), Num(111), Num(113), Num(112), Num(115), Num(117), Num(116), Num(118),
    Num(120)>>

\* an array-like object that is not an array: { length: 16, 0: 100, ... }
ArrayLike == [isArray |-> FALSE, items |-> Closes(period + 2, 1, 0)]

RsiInputs ==
  {ArrayOf(Closes(len, up, down)) :
     len \in 0..MaxCloses, up \in 0..MaxStep, down \in 0..MaxStep}
  \cup {ArrayOf(RegressionCloses), NotAnArray, ArrayLike}

InitHelpers ==
  /\ rev \in Revs
  /\ query = NoQuery
  /\ pc = "idle"
  /\ rs = [f \in Fields |-> Idle]
  /\ errors = <<>>
  /\ response = NoResponse
  /\ cache = {}
  /\ pendingPut = {}
  /\ cacheOps = <<>>
  /\ served = 0
  /\ replies = NoReplies
  /\ call = NoCall
  /\ sw = NoWorker

\* computeRsi14(closes); market.js before line 202 (r1) has no such function
CallComputeRsi14 ==
  /\ call = NoCall
  /\ rev # "r1"
  /\ \E c \in RsiInputs :
       call' = [fn |-> "computeRsi14", closes |-> c, ret |-> computeRsi14(c)]
  /\ UNCHANGED <<sw, rev, query, pc, rs, errors, response, cache, pendingPut, cacheOps,
                 served, replies>>

\* the longest close series of a chart reply and the most data rows of a
\* short CSV document
MaxPoints == 3
MaxRows == 3

\* what a chart's close array may hold: null for a day without a bar, a
\* number, and 1e999, which JSON.parse reads as Infinity
ChartCloses == {Null, Num(0), Num(80), Num(84), Inf(1)}

SeqsUpTo(S, n) == UNION {[1..k -> S] : k \in 0..n}

\* what meta.regularMarketPrice and meta.previousClose may hold: nothing,
\* null, 0, a price, and 1e999
QuoteValues == {Undefined, Null, Num(0), Num(84), Num(83), Inf(1)}

ChartReplies ==
  {YahooReply(TRUE, TRUE, TRUE, Num(84), Num(83), closes) :
     closes \in SeqsUpTo(ChartCloses, MaxPoints)}
  \cup {YahooReply(TRUE, TRUE, TRUE, rmp, prev, <<>>) :
          rmp \in QuoteValues, prev \in QuoteValues}
  \cup {YFault, YDown, YNoResult}

\* a row with fewer than five cells
ShortRow == << <<"d">>, <<"8", "3">> >>

CsvRows ==
  {Bar(<<"8", "4">>), Bar(<<"8", "0">>), Bar(<<"0">>), Bar(<<"N", "/", "D">>),
   ShortRow, EmptyLine}

\* the decimal text of a number below 1000
TextOf(n) ==
  <<Digits[(n \div 100) + 1], Digits[((n \div 10) % 10) + 1], Digits[(n % 10) + 1]>>

\* more rows than fetchStooqClose reads: 35 bars, newest 134, falling by 1
LongRows == 35
LongDoc == <<BarHeader>> \o [i \in 1..LongRows |-> Bar(TextOf(135 - i))]

CsvReplies ==
  {CsvReply(TRUE, TRUE, <<BarHeader>> \o rows) : rows \in SeqsUpTo(CsvRows, MaxRows)}
  \cup {CsvReply(TRUE, TRUE, LongDoc), CsvReply(TRUE, TRUE, <<>>), CsvDown}

\* fetchYahooChart(symbol) on a chart reply
CallFetchYahooChart ==
  /\ call = NoCall
  /\ \E p \in ChartReplies :
       call' = [fn |-> "fetchYahooChart", reply |-> p, ret |-> fetchYahooChart(rev, p)]
  /\ UNCHANGED <<sw, rev, query, pc, rs, errors, response, cache, pendingPut, cacheOps,
                 served, replies>>

\* fetchStooqClose(symbol, computePct) on a CSV reply
CallFetchStooqClose ==
  /\ call = NoCall
  /\ \E p \in CsvReplies, computePct \in BOOLEAN :
       call' = [fn |-> "fetchStooqClose", reply |-> p, computePct |-> computePct,
                ret |-> fetchStooqClose(rev, p, computePct)]
  /\ UNCHANGED <<sw, rev, query, pc, rs, errors, response, cache, pendingPut, cacheOps,
                 served, replies>>

\* the most lines of a single-series CSV document
MaxLines == 4

SeriesRows ==
  {FredHeader, << <<"d">>, <<"2", ".", "0", "1">> >>,
   << <<"d">>, <<"2", ".", "1", "5">> >>, << <<"d">>, <<".">> >>, << <<"d">> >>,
   EmptyLine}

SeriesReplies ==
  {CsvReply(TRUE, TRUE, doc) : doc \in SeqsUpTo(SeriesRows, MaxLines)} \cup {CsvDown}

\* fetchFredLastValue(seriesId) on a CSV reply
CallFetchFredLastValue ==
  /\ call = NoCall
  /\ \E p \in SeriesReplies :
       call' = [fn |-> "fetchFredLastValue", reply |-> p, ret |-> fetchFredLastValue(p)]
  /\ UNCHANGED <<sw, rev, query, pc, rs, errors, response, cache, pendingPut, cacheOps,
                 served, replies>>

NextHelpers ==
  \/ CallComputeRsi14
  \/ CallFetchYahooChart
  \/ CallFetchStooqClose
  \/ CallFetchFredLastValue

SpecHelpers == InitHelpers /\ [][NextHelpers]_vars

(* ------------------------------------------------------------------ *)
(* Wilder RSI(14)                                                      *)
(* ------------------------------------------------------------------ *)

\* C12: computeRsi14 returns null, never a number, for every argument that
\* is not an array and for every array of fewer than 15 closes.
C12_RsiUnavailable ==
  (/\ call.fn = "computeRsi14"
   /\ ~call.closes.isArray \/ Len(call.closes.items) < 15) =>
    call.ret = Null

\* an array of exactly 14 closes (13 changes) was answered with null
C12_Witness ==
  /\ call.fn = "computeRsi14"
  /\ call.closes.isArray
  /\ Len(call.closes.items) = 14
  /\ call.closes.items[1] # call.closes.items[2]
  /\ call.ret = Null

\* no close of the series is below the one before it
nonDecreasing(items) ==
  \A i \in 1..(Len(items) - 1) : ~JsLt(items[i + 1], items[i])

\* C13: for every array of at least 15 closes that never fall (a constant
\* series included) computeRsi14 returns exactly 100.
C13_RsiOfRisingIs100 ==
  (/\ call.fn = "computeRsi14"
   /\ call.closes.isArray
   /\ Len(call.closes.items) >= 15
   /\ nonDecreasing(call.closes.items)) =>
    call.ret = Num(100)

\* 15 equal closes: avgGain and avgLoss are both 0 and the answer is 100
C13_Witness ==
  /\ call.fn = "computeRsi14"
  /\ call.closes = ArrayOf(Closes(15, 0, 0))
  /\ call.ret = Num(100)

\* avgGain and avgLoss when computeRsi14's second loop ends
finalAverages(items) ==
  smooth(items, period + 1,
         [g |-> seedGains(items, period), l |-> seedLosses(items, period),
          scale |-> 1])

\* v is 1000 * g / s rounded to the nearest integer, a half rounded up
isHalfUp(v, g, s) == 2 * v * s - s <= 2000 * g /\ 2000 * g < 2 * v * s + s

\* ret is what rounding 100 * g / (g + l) to one decimal gives
isRoundedRsi(ret, a) ==
  a.l # 0 => isHalfUp((ret.n * 10) \div ret.d, a.g, a.g + a.l)

C15_RegressionVector ==
  (call.fn = "computeRsi14" /\ call.closes = ArrayOf(RegressionCloses)) =>
    /\ seedGains(RegressionCloses, 14) = 22
    /\ seedLosses(RegressionCloses, 14) = 6
    /\ change(RegressionCloses, 15) = 2
    /\ change(RegressionCloses, 16) = 2
    /\ call.ret = Rat(815, 10)
    /\ call.ret # Rat(828, 10)
    /\ isHalfUp(815, 4474, 5488)

\* the regression vector was handed to computeRsi14 of part_003
C15_Witness ==
  /\ rev = "r6"
  /\ call.fn = "computeRsi14"
  /\ Len(call.closes.items) = 17
  /\ call.closes.items[1] = Num(100)
  /\ call.closes.items[2] = Num(102)
  /\ call.closes.items[17] = Num(120)
  /\ IsFinite(call.ret)

(* ------------------------------------------------------------------ *)
(* The exchange-rate trend and the 30-day percentage change            *)
(* ------------------------------------------------------------------ *)

\* the trend category of a change: above +0.5 weakening, below -0.5
\* strengthening, stable for everything else (no change at all included)
trendOf(pct) ==
  IF IsFinite(pct) /\ 2 * pct.n > pct.d THEN "weakening"
  ELSE IF IsFinite(pct) /\ 2 * pct.n < -pct.d THEN "strengthening"
  ELSE "stable"

\* C16: a 200 response reports as usdInrTrend the category of the 30-day
\* change its exchange-rate resolver reported, whichever provider supplied
\* the change: weakening above +0.5, strengthening below -0.5, else stable.
C16_TrendOfChange ==
  (/\ pc = "done"
   /\ response.status = 200
   /\ rs["usdInr"].st = "settled"
   /\ rs["usdInr"].out.kind = "done") =>
    bodyHas("usdInrTrend", Str(trendOf(rs["usdInr"].out.res.pct30d)))

\* the change from the oldest to the newest of the usable closes, given
\* oldest first: none without a usable close or from an oldest close of 0
changeOver(usable) ==
  IF usable = <<>> THEN Null
  ELSE IF usable[1] = Num(0) THEN Null
  ELSE pctChange(usable[1], usable[Len(usable)])

\* the closes of a CSV document's window that parse to a finite number, in
\* the order of the document (newest first)
csvCloses(r, doc) ==
  LET ofRows(rows) ==
        SelectSeq([i \in 1..Len(rows) |-> parseFloat(rows[i][5])], IsFinite)
      ofLines(lines) ==
        ofRows(SelectSeq(slice(lines, 1, IF r = "r1" THEN StooqSliceEndR1
                                         ELSE StooqSliceEnd),
                         LAMBDA row : Len(row) >= 5))
  IN  ofLines(nonEmptyLines(splitLines(doc)))

\* the chart client's change is that of the finite closes, oldest first
yahooChangeIsOver ==
  (call.fn = "fetchYahooChart" /\ ~call.ret.threw) =>
    call.ret.pctChangeFromFirstPoint
      = changeOver(SelectSeq(call.reply.closes, IsFinite))

\* the CSV client's change is that of its window, read newest first
stooqChangeIsOver ==
  (call.fn = "fetchStooqClose" /\ call.computePct /\ ~call.ret.threw) =>
    call.ret.pct30d = changeOver(reverse(csvCloses(rev, call.reply.doc)))

\* C17: the percentage change a provider client reports is
\* (latest - earliest) / earliest * 100 over the usable closes of its window,
\* earliest the oldest and latest the newest of them, for Yahoo's
\* oldest-first and for Stooq's newest-first order; it is null when there is
\* no usable close or the earliest one is 0.
C17_PercentageChange ==
  yahooChangeIsOver /\ stooqChangeIsOver

(* ------------------------------------------------------------------ *)
(* A provider that never answers.  fetch() is called without a signal  *)
(* or a timer, so the promise of a call may stay pending for ever.     *)
(* Followed for the Promise.all handlers of market.js and the          *)
(* sequential handler of part_001, with at most one such call.         *)
(* ------------------------------------------------------------------ *)

hung == {f \in Fields : rs[f].st = "hung"}

InitStall == Init /\ rev \in {"r1", "r2", "r3"}

\* the provider call field f's resolver is waiting for never settles
Hang(f) ==
  /\ rs[f].st \in {"primary", "fallback"}
  /\ hung = {}
  /\ rs' = [rs EXCEPT ![f].st = "hung"]
  /\ UNCHANGED <<sw, call, rev, query, pc, errors, response, cache, pendingPut, cacheOps,
                 served, replies>>

NextStall ==
  \/ Start
  \/ \E f \in Fields : SettlePrimary(f)
  \/ \E f \in Fields : SettleFallback(f)
  \/ \E f \in Fields : Hang(f)

\* the handler runs, and every provider call that is not hung is answered
SpecStall ==
  /\ InitStall
  /\ [][NextStall]_vars
  /\ WF_vars(Start)
  /\ \A f \in Fields : WF_vars(SettlePrimary(f)) /\ WF_vars(SettleFallback(f))

\* C18: bounded stall.  When one provider call hangs and every other call
\* is answered, the handler still responds.
C18_BoundedStall ==
  (hung # {}) ~> (pc = "done")

(* ------------------------------------------------------------------ *)
(* The cache write of r5                                               *)
(* ------------------------------------------------------------------ *)

\* the handler returns a response in this step
responds == pc # "done" /\ pc' = "done"

\* this request's cache.put has been called
putCalled == \E i \in 1..Len(cacheOps) : cacheOps[i] = "put"

\* C19: put after respond.  A cache.put is called only in the step that
\* returns a 200 response to a request without manual override; in that
\* step the write is handed over, not completed: the cache is as it was and
\* the entry is pending.  No later step of the same request, the completion
\* or the failure of any write included, changes the response returned.
C19_PutAfterRespond ==
  /\ [](putCalled => (pc = "done" /\ response.status = 200 /\ ~hasManual(query)))
  /\ [][(responds /\ pc = "await" /\ response'.status = 200 /\ ~hasManual(query)) =>
          /\ cache' = cache
          /\ [key |-> query, resp |-> response'] \in pendingPut']_vars
  /\ [][(pc = "done" /\ pc' = "done") => response' = response]_vars

\* a response was returned on a cache miss while its write is still pending
\* and the cache holds nothing for the request
C19_Witness ==
  /\ pc = "done"
  /\ response.status = 200
  /\ ~hasManual(query)
  /\ cacheOps = <<"match", "put">>
  /\ [key |-> query, resp |-> response] \in pendingPut
  /\ cachedFor(query) = {}

(* ------------------------------------------------------------------ *)
(* The CSV close-series client                                         *)
(* ------------------------------------------------------------------ *)

\* the rows of a CSV document below its header
dataRows(doc) ==
  LET below(lines) == IF Len(lines) < 2 THEN <<>> ELSE SubSeq(lines, 2, Len(lines))
  IN  below(nonEmptyLines(splitLines(doc)))

\* a usable row: at least five cells, the fifth a finite number
isUsableRow(row) == Len(row) >= 5 /\ IsFinite(parseFloat(row[5]))

\* C20: fetchStooqClose throws for every document with fewer than two usable
\* rows, and what it returns without throwing has a finite last close.
C20_StooqNeedsTwoRows ==
  (call.fn = "fetchStooqClose" /\ call.reply.net /\ call.reply.ok) =>
    /\ Len(SelectSeq(dataRows(call.reply.doc), isUsableRow)) < 2 => call.ret.threw
    /\ ~call.ret.threw => IsFinite(call.ret.last)

(* ------------------------------------------------------------------ *)
(* The CSV single-series client                                        *)
(* ------------------------------------------------------------------ *)

\* the 1-based positions, below the first line, of the lines of a document
\* whose second cell parses to a finite number
numericLines(lines) ==
  {i \in 2..Len(lines) : Len(lines[i]) >= 2 /\ IsFinite(parseFloat(lines[i][2]))}

\* ret is the second cell of the lowest numeric line, or a throw without one
isLastNumeric(ret, lines) ==
  /\ ret.threw <=> numericLines(lines) = {}
  /\ ~ret.threw =>
       ret.value = parseFloat(lines[MaxOf(numericLines(lines))][2])

\* C21: on a success reply fetchFredLastValue returns the second cell of the
\* lowest line, the header line excluded, whose second cell parses to a
\* finite number, and it throws exactly when there is no such line.
C21_FredLastNumeric ==
  (call.fn = "fetchFredLastValue" /\ call.reply.net /\ call.reply.ok) =>
    isLastNumeric(call.ret, splitLines(call.reply.doc))

\* header, 2.01, 2.15, and a newest row without an observation: 2.15
C21_Witness ==
  /\ call.fn = "fetchFredLastValue"
  /\ call.reply.doc = <<FredHeader, << <<"d">>, <<"2", ".", "0", "1">> >>,
                        << <<"d">>, <<"2", ".", "1", "5">> >>, << <<"d">>, <<".">> >> >>
  /\ ~call.ret.threw
  /\ call.ret.value = Rat(215, 100)

(* ------------------------------------------------------------------ *)
(* The quote-chart client                                              *)
(* ------------------------------------------------------------------ *)

\* the live quote when it is a finite number, else the previous close when
\* that is one, else null
quoteOf(p) ==
  IF IsFinite(p.rmp) THEN p.rmp ELSE IF IsFinite(p.pc) THEN p.pc ELSE Null

\* C22: fetchYahooChart throws on a non-success status and on a reply
\* without chart.result[0]; otherwise latestPrice is regularMarketPrice when
\* that is a finite number, 0 included, previousClose only when it is not,
\* and null when neither is a finite number.
C22_LatestPrice ==
  call.fn = "fetchYahooChart" =>
    /\ (call.reply.net /\ (~call.reply.ok \/ ~call.reply.hasResult)) => call.ret.threw
    /\ ~call.ret.threw => call.ret.latestPrice = quoteOf(call.reply)

(* ------------------------------------------------------------------ *)
(* The indicator resolver and the failure notes                        *)
(* ------------------------------------------------------------------ *)

\* a success reply with a result that holds at least 20 finite closes
hasTwentyCloses(p) ==
  p.net /\ p.ok /\ p.hasResult /\ Len(SelectSeq(p.closes, IsFinite)) >= 20

\* C23: the indicator resolver never rejects; its value is a finite number
\* exactly when Yahoo answered with a result of at least 20 finite closes,
\* and otherwise it is null with a failure note.
C23_RsiResolver ==
  rs["rsi"].st = "settled" =>
    /\ rs["rsi"].out.kind = "done"
    /\ hasTwentyCloses(replies["rsi"].primary) <=> IsFinite(rs["rsi"].out.res.value)
    /\ ~hasTwentyCloses(replies["rsi"].primary) =>
         /\ rs["rsi"].out.res.value = Null
         /\ rs["rsi"].out.res.note # ""

\* the providers a field's resolver asks
ownProviders(f) ==
  CASE f \in {"dxy", "usdInr"} -> {"yahoo", "stooq"}
    [] f = "realYield" -> {"fred"}
    [] f \in {"price", "rsi"} -> {"yahoo"}
    [] f = "inav" -> {"sbimf"}

\* r is a result object with value null whose source is field f's own: one
\* of f's providers with a failure note, or the object safe() of r1 builds,
\* which carries the field's name under provider "error"
reportsOwnFailure(f, r) ==
  /\ r.obj
  /\ r.value = Null
  /\ \/ r.provider \in ownProviders(f) /\ r.note # ""
     \/ r.provider = "error"

\* C24: when every provider of a field failed, what the handler holds for the
\* field is a result object (nothing was raised past the resolver and its
\* wrapper) with value null and a source that names one of that field's own
\* providers with a failure note, never another field's provider or note.
C24_OwnFailureReported ==
  \A f \in applicable :
    everyProviderFailed(f) =>
      /\ rs[f].out.kind = "done" \/ isSafe(rev)
      /\ reportsOwnFailure(f, held(rev, f, rs[f].out))

\* the entries safe() has pushed, as a set
entries == {errors[i] : i \in 1..Len(errors)}

\* the fields whose resolver's promise rejected
rejected == {f \in applicable : rs[f].st = "settled" /\ rs[f].out.kind = "reject"}

\* C25: in the handlers that keep an errors array, under every order in which
\* the resolvers complete the array holds at most one entry per field, its
\* set of entries is exactly one entry for every resolver that failed (the
\* order alone follows the completions), and when the body is serialized
\* every resolver has settled and the body carries the whole array.
C25_ErrorsArray ==
  isSafe(rev) =>
    /\ \A i, j \in 1..Len(errors) : errors[i].label = errors[j].label => i = j
    /\ entries = {errorEntry(rev, f, rs[f].out.msg) : f \in rejected}
    /\ pc = "done" =>
         /\ \A f \in applicable : rs[f].st = "settled"
         /\ response.errors = errors

\* Promise.all of r1: two resolvers failed and the later one in call order
\* completed first
C25_Witness ==
  /\ rev = "r1"
  /\ pc = "done"
  /\ Len(response.errors) = 2
  /\ response.errors[1].label = "realYield"
  /\ response.errors[2].label = "dxy"

\* b is an aggregate body built without an override: every entry of
\* notes.manualOverrides is null and every chosen mode is "auto"
isAutoBody(b) ==
  /\ \A k \in {"notes.manualOverrides.inav_manual", "notes.manualOverrides.price_manual",
               "notes.manualOverrides.rsi_manual"} : k \in DOMAIN b /\ b[k] = Null
  /\ \A k \in {"inav.inavChosenMode", "setfGold.priceChosenMode", "rsi.rsiChosenMode"} :
       k \in DOMAIN b /\ b[k] = Str("auto")

\* the request was answered by if (cached) return cached
answeredFromCache ==
  pc = "done" /\ cacheOps = <<"match">> /\ response.status = 200

\* C26: after any sequence of requests every entry of the cache is a
\* status-200 aggregate body built without a numeric manual override (the
\* 500 envelope is never stored), and a request answered from the cache has
\* started no resolver and received no provider reply.
C26_CacheContents ==
  /\ \A e \in cache :
       /\ e.resp.status = 200
       /\ isAutoBody(e.resp.body)
       /\ "error" \notin DOMAIN e.resp.body
  /\ answeredFromCache =>
       /\ replies = NoReplies
       /\ \A f \in Fields : rs[f] = Idle

\* the second request was answered from the entry the first one stored
C26_Witness ==
  /\ served = 2
  /\ answeredFromCache
  /\ cache # {}
  /\ replies = NoReplies
  /\ isAutoBody(response.body)


(* ------------------------------------------------------------------ *)
(* The service worker (sw.js): caches, fetch events, cache writes      *)
(* ------------------------------------------------------------------ *)

CACHE_NAME == "gold-radar-v31"
\* a cache an earlier version of the worker left behind
OldCache == "gold-radar-v30"

\* request paths, as their segments
ApiRequest == <<"api", "market">>
AssetRequest == <<"index.html">>
OtherRequest == <<"styles.css">>
WorkerRequests == {ApiRequest, AssetRequest, OtherRequest}

\* of the requests above, those listed in ASSETS
ASSETS == {AssetRequest}

\* url.pathname.startsWith("/api/")
startsWithApi(path) == Len(path) >= 2 /\ path[1] = "api"

\* how many fetch events the worker handles
MaxEvents == 3

NoEntry == [origin |-> "none", n |-> 0]
Installed == [origin |-> "install", n |-> 0]
Stale == [origin |-> "old", n |-> 0]
\* the n-th response the network gave
FromNetwork(n) == [origin |-> "network", n |-> n]

\* the caches in the order they were created
creationOrder == <<OldCache, CACHE_NAME>>

\* caches.match(request): the first entry over the caches in creation order
cachesMatch(caches, req) ==
  LET holding == SelectSeq(creationOrder,
                           LAMBDA k : k \in DOMAIN caches /\ caches[k][req] # NoEntry)
  IN  IF holding = <<>> THEN NoEntry ELSE caches[holding[1]][req]

\* the worker is installed: cache.addAll(ASSETS) has filled CACHE_NAME; an
\* older cache may exist
InitWorker ==
  /\ rev = "r6"
  /\ query = NoQuery
  /\ pc = "idle"
  /\ rs = [f \in Fields |-> Idle]
  /\ errors = <<>>
  /\ response = NoResponse
  /\ cache = {}
  /\ pendingPut = {}
  /\ cacheOps = <<>>
  /\ served = 0
  /\ replies = NoReplies
  /\ call = NoCall
  /\ \E old \in {{}, {OldCache}} :
       sw = [phase |-> "installed",
             caches |-> [k \in old \cup {CACHE_NAME} |->
                           IF k = CACHE_NAME
                           THEN [q \in WorkerRequests |->
                                   IF q \in ASSETS THEN Installed ELSE NoEntry]
                           ELSE [q \in WorkerRequests |->
                                   IF q = OtherRequest THEN NoEntry ELSE Stale]],
             events |-> <<>>,
             writes |-> {},
             last |-> [q \in WorkerRequests |-> NoEntry],
             n |-> 0]

\* the activate listener: every cache whose key is not CACHE_NAME is deleted
Activate ==
  /\ sw.phase = "installed"
  /\ sw' = [sw EXCEPT !.phase = "active",
                      !.caches = [k \in {c \in DOMAIN sw.caches : c = CACHE_NAME} |->
                                    sw.caches[k]]]
  /\ UNCHANGED <<call, rev, query, pc, rs, errors, response, cache, pendingPut, cacheOps,
                 served, replies>>

\* the fetch listener is called: an /api/ request starts fetch(event.request),
\* any other request starts caches.match(event.request)
FetchEvent(req) ==
  /\ sw.phase = "active"
  /\ Len(sw.events) < MaxEvents
  /\ sw' = [sw EXCEPT !.events =
              Append(sw.events,
                     [req |-> req,
                      st |-> IF startsWithApi(req) THEN "network" ELSE "match",
                      net |-> IF startsWithApi(req) THEN "pending" ELSE "none",
                      from |-> "none", answer |-> NoEntry, latest |-> NoEntry])]
  /\ UNCHANGED <<call, rev, query, pc, rs, errors, response, cache, pendingPut, cacheOps,
                 served, replies>>

\* caches.match(...).then((cached) => cached || fetch(event.request))
CacheFirst(i) ==
  /\ i \in 1..Len(sw.events)
  /\ sw.events[i].st = "match"
  /\ ~startsWithApi(sw.events[i].req)
  /\ sw' = IF cachesMatch(sw.caches, sw.events[i].req) # NoEntry
           THEN [sw EXCEPT !.events[i].st = "answered",
                           !.events[i].from = "cache",
                           !.events[i].answer = cachesMatch(sw.caches, sw.events[i].req)]
           ELSE [sw EXCEPT !.events[i].st = "network", !.events[i].net = "pending"]
  /\ UNCHANGED <<call, rev, query, pc, rs, errors, response, cache, pendingPut, cacheOps,
                 served, replies>>

\* fetch(event.request) resolves: the response answers the event; for an
\* /api/ request caches.open(CACHE_NAME).then(cache => cache.put(...)) is
\* started and not awaited
NetworkResolves(i) ==
  /\ i \in 1..Len(sw.events)
  /\ sw.events[i].st = "network"
  /\ sw' = [sw EXCEPT !.n = sw.n + 1,
                      !.events[i].st = "answered",
                      !.events[i].net = "resolved",
                      !.events[i].from = "network",
                      !.events[i].answer = FromNetwork(sw.n + 1),
                      !.last[sw.events[i].req] = FromNetwork(sw.n + 1),
                      !.writes = IF startsWithApi(sw.events[i].req)
                                 THEN sw.writes \cup {[req |-> sw.events[i].req,
                                                       resp |-> FromNetwork(sw.n + 1)]}
                                 ELSE sw.writes]
  /\ UNCHANGED <<call, rev, query, pc, rs, errors, response, cache, pendingPut, cacheOps,
                 served, replies>>

\* fetch(event.request) rejects: .catch(() => caches.match(event.request))
\* for an /api/ request; any other request is answered with the failure
NetworkRejects(i) ==
  /\ i \in 1..Len(sw.events)
  /\ sw.events[i].st = "network"
  /\ sw' = IF startsWithApi(sw.events[i].req)
           THEN [sw EXCEPT !.events[i].st = "match", !.events[i].net = "rejected"]
           ELSE [sw EXCEPT !.events[i].st = "answered", !.events[i].net = "rejected",
                           !.events[i].from = "error"]
  /\ UNCHANGED <<call, rev, query, pc, rs, errors, response, cache, pendingPut, cacheOps,
                 served, replies>>

\* the caches.match of the catch handler resolves, with an entry or undefined
FallbackMatch(i) ==
  /\ i \in 1..Len(sw.events)
  /\ sw.events[i].st = "match"
  /\ startsWithApi(sw.events[i].req)
  /\ sw' = [sw EXCEPT !.events[i].st = "answered",
                      !.events[i].from = "cache",
                      !.events[i].answer = cachesMatch(sw.caches, sw.events[i].req),
                      !.events[i].latest = sw.last[sw.events[i].req]]
  /\ UNCHANGED <<call, rev, query, pc, rs, errors, response, cache, pendingPut, cacheOps,
                 served, replies>>

\* a cache.put started by the fetch listener stores its response
WriteCommits ==
  /\ \E w \in sw.writes :
       sw' = [sw EXCEPT !.writes = sw.writes \ {w},
                        !.caches[CACHE_NAME][w.req] = w.resp]
  /\ UNCHANGED <<call, rev, query, pc, rs, errors, response, cache, pendingPut, cacheOps,
                 served, replies>>

NextWorker ==
  \/ Activate
  \/ \E req \in WorkerRequests : FetchEvent(req)
  \/ \E i \in 1..MaxEvents : CacheFirst(i)
  \/ \E i \in 1..MaxEvents : NetworkResolves(i)
  \/ \E i \in 1..MaxEvents : NetworkRejects(i)
  \/ \E i \in 1..MaxEvents : FallbackMatch(i)
  \/ WriteCommits

SpecWorker == InitWorker /\ [][NextWorker]_vars

\* the fetch events for /api/ requests, and the others
apiEvents == {i \in 1..Len(sw.events) : startsWithApi(sw.events[i].req)}
otherEvents == {i \in 1..Len(sw.events) : ~startsWithApi(sw.events[i].req)}

\* an /api/ event is answered from the cache only after its network fetch
\* rejected
networkFirst ==
  \A i \in apiEvents : sw.events[i].from = "cache" => sw.events[i].net = "rejected"

\* every network response to an /api/ request is handed to cache.put in the
\* step that answers the event: it is waiting to be written or in the cache
putStarted ==
  \A i \in apiEvents :
    sw.events[i].from = "network" =>
      \/ [req |-> sw.events[i].req, resp |-> sw.events[i].answer] \in sw.writes
      \/ sw.caches[CACHE_NAME][sw.events[i].req].origin = "network"

\* an /api/ event answered after its network fetch rejected, when a network
\* fetch for the request had completed before, is answered with the response
\* of the most recently completed one
servesLatest ==
  \A i \in apiEvents :
    (sw.events[i].from = "cache" /\ sw.events[i].latest # NoEntry) =>
      sw.events[i].answer = sw.events[i].latest

\* any other request is answered from the cache when it holds an entry,
\* and nothing is written for it
cacheFirst ==
  /\ \A i \in otherEvents :
       /\ sw.events[i].from = "cache" => sw.events[i].net = "none"
       /\ sw.events[i].net # "none" =>
            cachesMatch(sw.caches, sw.events[i].req) = NoEntry
  /\ \A w \in sw.writes : startsWithApi(w.req)
  /\ \A q \in WorkerRequests :
       ~startsWithApi(q) =>
         sw.caches[CACHE_NAME][q] = IF q \in ASSETS THEN Installed ELSE NoEntry

\* after activation CACHE_NAME is the only cache
onlyCacheName == sw.phase = "active" => DOMAIN sw.caches = {CACHE_NAME}

\* C27: the service worker answers an /api/ request from the cache only when
\* its network fetch rejected, starts a cache write for every network
\* response without waiting for it, and on a later network failure serves
\* the response of the most recently completed network fetch for the
\* request; any other request is answered cache-first and never written;
\* after activation no cache other than CACHE_NAME remains.
C27_WorkerCaching ==
  /\ networkFirst
  /\ putStarted
  /\ servesLatest
  /\ cacheFirst
  /\ onlyCacheName

====
